---- MODULE Spec2Model ----
(***************************************************************************)
(* Moonraker Engage: the patient chatbot (src/src/api/patient_chatbot.py,  *)
(* src/src/ai/mental_health_agent.py) and the public API (src/api/main.py) *)
(* as state machines.                                                      *)
(*                                                                         *)
(* Python strings that the code inspects (lower(), `in`) are sequences of  *)
(* one-character strings; identifiers that are only compared are TLA+      *)
(* strings.  Optional[T] is a sequence of length 0 (None) or 1.            *)
(***************************************************************************)
EXTENDS Integers, Sequences, FiniteSets, TLC

VARIABLES
    active_sessions,        \* patient_chatbot.active_sessions: session_id -> PatientSession
    conversation_contexts,  \* patient_chatbot.conversation_contexts: session_id -> MentalHealthContext
    audit_log,              \* the entries HIPAAAuditLogger.log_access has written, in order
    pending,                \* send_chat_message invocations suspended in `await self.agent.run`
    last,                   \* the handler invocation that took the latest step: its locals and result
    now,                    \* datetime.utcnow(), in ticks
    nreq,                   \* number of patient-chatbot requests received so far
    GHL_API_KEY,            \* api/main.py: os.getenv("GHL_API_KEY"), read at import
    GHL_LOCATION_ID,        \* api/main.py: os.getenv("GHL_LOCATION_ID"), read at import
    pub,                    \* the latest invocation of a public-API function: its calls and reply
    mcp,                    \* the latest invocation of TherapyFocusedMCPClient._make_mcp_request
    sales,                  \* a sales-chatbot conversation: its ConversationContext and latest reply
    util,                   \* the latest call of an authentication or encryption function
    ghl                     \* the calendars of the therapist's CRM location, and the
                            \* schedule_therapy_session calls in progress on the client

chatvars == <<active_sessions, conversation_contexts, audit_log, pending, last, now, nreq>>
pubvars == <<GHL_API_KEY, GHL_LOCATION_ID, pub>>
libvars == <<mcp, sales, util, ghl>>
vars == <<chatvars, pubvars, libvars>>

----------------------------------------------------------------------------
(* Bounds *)

MaxReq == 3     \* requests received in one run

----------------------------------------------------------------------------
(* Strings *)

UpperCase == <<"A","B","C","D","E","F","G","H","I","J","K","L","M","N","O","P","Q","R","S","T","U","V","W","X","Y","Z">>
LowerCase == <<"a","b","c","d","e","f","g","h","i","j","k","l","m","n","o","p","q","r","s","t","u","v","w","x","y","z">>

\* str.lower() on one character (ASCII)
LowerChar(c) ==
    IF \E i \in 1..Len(UpperCase) : UpperCase[i] = c
    THEN LowerCase[CHOOSE i \in 1..Len(UpperCase) : UpperCase[i] = c]
    ELSE c

\* str.lower()
Lower(s) == [i \in 1..Len(s) |-> LowerChar(s[i])]

\* Python `needle in hay` on strings
Contains(needle, hay) ==
    \E i \in 0..(Len(hay) - Len(needle)) : SubSeq(hay, i + 1, i + Len(needle)) = needle

\* Python any(indicator in text for indicator in indicators)
AnyIn(indicators, text) == \E i \in 1..Len(indicators) : Contains(indicators[i], text)

\* Python seq[start:] for any integer start
PySliceFrom(seq, start) ==
    LET n == Len(seq)
        s == IF start < 0 THEN (IF n + start < 0 THEN 0 ELSE n + start)
             ELSE (IF start > n THEN n ELSE start)
    IN SubSeq(seq, s + 1, n)

Range(f) == {f[x] : x \in DOMAIN f}

----------------------------------------------------------------------------
(* Enumerations and fixed texts *)

ConsentStatus == {"pending", "granted", "revoked", "expired"}
RiskLevel == {"low", "moderate", "high", "crisis"}

crisis_keywords ==
  <<
    <<"s","u","i","c","i","d","e">>,
    <<"k","i","l","l"," ","m","y","s","e","l","f">>,
    <<"e","n","d"," ","m","y"," ","l","i","f","e">>,
    <<"w","a","n","t"," ","t","o"," ","d","i","e">>,
    <<"b","e","t","t","e","r"," ","o","f","f"," ","d","e","a","d">>,
    <<"s","u","i","c","i","d","e"," ","p","l","a","n">>,
    <<"s","u","i","c","i","d","a","l">>,
    <<"e","n","d"," ","i","t"," ","a","l","l">>,
    <<"t","a","k","e"," ","m","y"," ","o","w","n"," ","l","i","f","e">>,
    <<"c","u","t"," ","m","y","s","e","l","f">>,
    <<"h","u","r","t"," ","m","y","s","e","l","f">>,
    <<"s","e","l","f"," ","h","a","r","m">>,
    <<"s","e","l","f","-","h","a","r","m">>,
    <<"c","u","t","t","i","n","g">>,
    <<"b","u","r","n","i","n","g"," ","m","y","s","e","l","f">>,
    <<"p","u","n","i","s","h"," ","m","y","s","e","l","f">>,
    <<"c","a","n","'","t"," ","g","o"," ","o","n">>,
    <<"h","o","p","e","l","e","s","s">>,
    <<"n","o"," ","w","a","y"," ","o","u","t">>,
    <<"g","i","v","e"," ","u","p">>,
    <<"w","o","r","t","h","l","e","s","s">>,
    <<"e","m","e","r","g","e","n","c","y">>,
    <<"c","r","i","s","i","s">>,
    <<"b","r","e","a","k","d","o","w","n">>,
    <<"l","o","s","i","n","g"," ","c","o","n","t","r","o","l">>,
    <<"h","e","a","r","i","n","g"," ","v","o","i","c","e","s">>,
    <<"v","o","i","c","e","s"," ","t","e","l","l","i","n","g"," ","m","e">>,
    <<"p","a","r","a","n","o","i","d">>,
    <<"c","o","n","s","p","i","r","a","c","y">>,
    <<"t","h","e","y","'","r","e"," ","w","a","t","c","h","i","n","g">>,
    <<"n","o","t"," ","r","e","a","l">>,
    <<"h","a","l","l","u","c","i","n","a","t","i","o","n">>
  >>

\* the indicator lists of _create_crisis_alert
suicide_indicators ==
    << <<"s","u","i","c","i","d","e">>, <<"k","i","l","l"," ","m","y","s","e","l","f">>,
       <<"e","n","d"," ","m","y"," ","l","i","f","e">> >>
self_harm_indicators ==
    << <<"c","u","t"," ","m","y","s","e","l","f">>, <<"h","u","r","t"," ","m","y","s","e","l","f">>,
       <<"s","e","l","f"," ","h","a","r","m">> >>
psychosis_indicators ==
    << <<"v","o","i","c","e","s">>, <<"p","a","r","a","n","o","i","d">>,
       <<"c","o","n","s","p","i","r","a","c","y">> >>

\* the message texts the code returns (never inspected by the code): sequences of pieces
CrisisResponseText ==
    << "I'm very concerned about what you've shared.", "...",
       "I'm notifying your therapist immediately so they can provide the support you need.", "..." >>
SafeErrorText ==
    << "I'm sorry, I'm having trouble right now.", "...",
       "Your therapist will be notified of this issue." >>
AgentText == << "<text generated by the LLM agent>" >>

\* crisis_resources of the success path and of the except branch of send_chat_message
CrisisResources ==
    [crisis_text_line |-> "Text HOME to 741741",
     suicide_lifeline |-> "Call or text 988",
     emergency |-> "Call 911 if in immediate danger",
     your_therapist |-> "Your therapist has been notified and will contact you soon"]
ErrorCrisisResources ==
    [emergency |-> "Call 911", crisis_support |-> "Text 988"]

\* EmergencyInfo returned by get_emergency_resources
EmergencyInfo ==
    [crisis_hotlines |->
        << [name |-> "988 Suicide & Crisis Lifeline", number |-> "988"],
           [name |-> "Crisis Text Line", number |-> "741741"],
           [name |-> "Emergency Services", number |-> "911"] >>,
     emergency_contacts |-> << [name |-> "Your Therapist"] >>]

----------------------------------------------------------------------------
(* Inputs *)

NoHeader == "<no session-id header>"
SessionHeaders == {NoHeader, "A"}

\* ChatMessage.message (1..2000 characters)
Messages ==
    { <<"a","l","l"," ","o","k">>,                                   \* "all ok"
      <<"I"," ","H","u","r","t"," ","m","y","s","e","l","f","!">> }  \* "I Hurt myself!"

\* What self.crisis_detector(...) does: it raises, or returns a prediction whose
\* fields are strings produced by the language model.
Predictions ==
    { [raises |-> TRUE,  immediate_response_needed |-> "",      crisis_indicators |-> <<>>],
      [raises |-> FALSE, immediate_response_needed |-> "true",  crisis_indicators |-> << <<"p","l","a","n">> >>],
      [raises |-> FALSE, immediate_response_needed |-> "True",  crisis_indicators |-> <<>>],
      [raises |-> FALSE, immediate_response_needed |-> "false", crisis_indicators |-> <<>>] }

\* What `await self.agent.run(...)` does: it raises, or returns response.data, an AIResponse.
AgentOutcomes ==
    { [raises |-> TRUE, data |-> <<>>] } \cup
    { [raises |-> FALSE,
       data |-> << [message |-> AgentText, risk_assessment |-> r, crisis_indicators |-> {},
                    escalation_required |-> e, follow_up_needed |-> e] >>]
      : r \in RiskLevel, e \in {TRUE} } \cup
    { [raises |-> FALSE,
       data |-> << [message |-> AgentText, risk_assessment |-> "low", crisis_indicators |-> {},
                    escalation_required |-> FALSE, follow_up_needed |-> FALSE] >>] }

\* the `limit` query parameter of get_conversation_history
Limits == {0, 1, 20}

----------------------------------------------------------------------------
(* Records *)

AuditLogEntry(user_id, patient_id, action, resource, outcome) ==
    [user_id |-> user_id, patient_id |-> patient_id, action |-> action,
     resource |-> resource, outcome |-> outcome]

ConversationEntry(timestamp, message_type, content, risk_indicators, escalation_triggered, therapist_notified) ==
    [timestamp |-> timestamp, message_type |-> message_type, content |-> content,
     risk_indicators |-> risk_indicators, escalation_triggered |-> escalation_triggered,
     therapist_notified |-> therapist_notified]

\* the request header "session-id", or the generated default
SessionIdOf(header, t) ==
    IF header = NoHeader THEN "session_" \o ToString(t) ELSE header

NewSession(session_id, t) ==
    [session_id |-> session_id,
     patient_id |-> "patient_" \o session_id,
     therapist_id |-> "therapist_123",
     started_at |-> t,
     last_activity |-> t,
     message_count |-> 0,
     consent_status |-> "granted",
     risk_level |-> "low"]

NewContext(session) ==
    [patient_id |-> session.patient_id,
     therapist_id |-> session.therapist_id,
     session_id |-> session.session_id,
     conversation_history |-> <<>>,
     patient_risk_level |-> session.risk_level]

\* a dependency that stores a new session on every request
get_patient_session_always_new(session_id, t) ==
    [sessions |-> (session_id :> NewSession(session_id, t)) @@ active_sessions,
     contexts |-> (session_id :> NewContext(NewSession(session_id, t))) @@ conversation_contexts]

\* get_patient_session: the two dictionaries after the dependency has run
get_patient_session(session_id, t) ==
    IF session_id \notin DOMAIN active_sessions
    THEN [sessions |-> active_sessions @@ (session_id :> NewSession(session_id, t)),
          contexts |-> (session_id :> NewContext(NewSession(session_id, t))) @@ conversation_contexts]
    ELSE [sessions |-> active_sessions, contexts |-> conversation_contexts]

----------------------------------------------------------------------------
(* MentalHealthAgent *)

\* _detect_crisis, the keyword scan: the crisis keywords found in each message,
\* tabulated over the messages of the model
detected_keywords ==
    [message \in Messages |->
        SelectSeq(crisis_keywords, LAMBDA keyword : Contains(Lower(keyword), Lower(message)))]

\* _detect_crisis: the keyword scan joined with the detector's prediction
_detect_crisis(message, prediction) ==
    [crisis_indicators |-> Range(detected_keywords[message]) \cup Range(prediction.crisis_indicators),
     immediate_response |-> (prediction.immediate_response_needed = "true")]

\* a crisis response that forgets to ask for escalation
_handle_crisis_response_no_escalation(message) ==
    [message |-> CrisisResponseText,
     risk_assessment |-> "crisis",
     crisis_indicators |-> { <<"crisis_protocol_activated">> },
     escalation_required |-> FALSE,
     follow_up_needed |-> TRUE]

_handle_crisis_response(message) ==
    [message |-> CrisisResponseText,
     risk_assessment |-> "crisis",
     crisis_indicators |-> { <<"crisis_protocol_activated">> },
     escalation_required |-> TRUE,
     follow_up_needed |-> TRUE]

\* _create_crisis_alert, the alert type of each message of the model
alert_type ==
    [patient_message \in Messages |->
        IF AnyIn(suicide_indicators, Lower(patient_message)) THEN "suicide_ideation"
        ELSE IF AnyIn(self_harm_indicators, Lower(patient_message)) THEN "self_harm"
        ELSE IF AnyIn(psychosis_indicators, Lower(patient_message)) THEN "psychosis_indicators"
        ELSE "general_crisis"]

\* _create_crisis_alert, the severity
severity(ai_response) ==
    IF ai_response.risk_assessment = "high" THEN "high"
    ELSE IF ai_response.risk_assessment = "moderate" THEN "medium"
    ELSE "critical"

_create_crisis_alert(patient_message, ai_response, context, t) ==
    [patient_id |-> context.patient_id,
     alert_type |-> alert_type[patient_message],
     severity |-> severity(ai_response),
     trigger_message |-> patient_message,
     created_at |-> t]

\* process_message with step 3 deciding by the risk level instead of escalation_required
process_message_finish_alert_by_risk(patient_message, ai_response, context, t) ==
    LET crisis_alert ==
            IF ai_response.risk_assessment \in {"high", "crisis"}
            THEN << _create_crisis_alert(patient_message, ai_response, context, t) >>
            ELSE <<>>
        conversation_entry ==
            ConversationEntry(t, "ai_response", ai_response.message,
                              ai_response.crisis_indicators,
                              ai_response.escalation_required,
                              crisis_alert # <<>>)
    IN [ai_response |-> ai_response,
        crisis_alert |-> crisis_alert,
        context |-> [context EXCEPT !.conversation_history = Append(@, conversation_entry),
                                    !.patient_risk_level = ai_response.risk_assessment],
        audit |-> << AuditLogEntry(context.therapist_id, context.patient_id,
                                   "ai_message_processing", "patient_conversation", "success") >>]

\* process_message, steps 3 and 4 and the return: from an AIResponse to the
\* updated context, the optional CrisisAlert and the audit entry written
process_message_finish(patient_message, ai_response, context, t) ==
    LET crisis_alert ==
            IF ai_response.escalation_required
            THEN << _create_crisis_alert(patient_message, ai_response, context, t) >>
            ELSE <<>>
        conversation_entry ==
            ConversationEntry(t, "ai_response", ai_response.message,
                              ai_response.crisis_indicators,
                              ai_response.escalation_required,
                              crisis_alert # <<>>)
    IN [ai_response |-> ai_response,
        crisis_alert |-> crisis_alert,
        context |-> [context EXCEPT !.conversation_history = Append(@, conversation_entry),
                                    !.patient_risk_level = ai_response.risk_assessment],
        audit |-> << AuditLogEntry(context.therapist_id, context.patient_id,
                                   "ai_message_processing", "patient_conversation", "success") >>]

\* process_message, except branch: the audit entry written before re-raising
process_message_except(context) ==
    << AuditLogEntry(context.therapist_id, context.patient_id,
                     "ai_message_processing", "patient_conversation", "failure") >>

----------------------------------------------------------------------------
(* patient_chatbot handlers, as functions of their inputs *)

_notify_therapist_of_crisis(therapist_id, crisis_alert) ==
    << AuditLogEntry(therapist_id, crisis_alert.patient_id,
                     "crisis_alert_sent", "therapist_notification", "success") >>

\* send_chat_message after process_message has returned (ai_response, crisis_alert)
send_chat_message_finish(session, ai_response, crisis_alert, t) ==
    LET therapist_notified == (crisis_alert # <<>>)
    IN [session |-> [session EXCEPT !.last_activity = t,
                                    !.message_count = @ + 1,
                                    !.risk_level = ai_response.risk_assessment],
        calls |-> IF therapist_notified THEN <<"_notify_therapist_of_crisis">> ELSE <<>>,
        audit |-> (IF therapist_notified
                   THEN _notify_therapist_of_crisis(session.therapist_id, crisis_alert[1])
                   ELSE <<>>)
                  \o << AuditLogEntry(session.therapist_id, session.patient_id,
                                      "patient_chat_message", "ai_chatbot", "success") >>,
        response |-> [message |-> ai_response.message,
                      session_id |-> session.session_id,
                      timestamp |-> t,
                      risk_level |-> ai_response.risk_assessment,
                      crisis_resources |-> IF therapist_notified THEN <<CrisisResources>> ELSE <<>>,
                      therapist_notified |-> therapist_notified]]

\* an except branch reached after the session has already been updated
send_chat_message_except_session_updated(session, t) ==
    [session |-> [session EXCEPT !.last_activity = t, !.message_count = @ + 1],
     calls |-> <<>>,
     audit |-> << AuditLogEntry(session.therapist_id, session.patient_id,
                                "patient_chat_message", "ai_chatbot", "failure") >>,
     response |-> [message |-> SafeErrorText,
                   session_id |-> session.session_id,
                   timestamp |-> t,
                   risk_level |-> "unknown",
                   crisis_resources |-> <<ErrorCrisisResources>>,
                   therapist_notified |-> TRUE]]

\* send_chat_message, except branch
send_chat_message_except(session, t) ==
    [session |-> session,
     calls |-> <<>>,
     audit |-> << AuditLogEntry(session.therapist_id, session.patient_id,
                                "patient_chat_message", "ai_chatbot", "failure") >>,
     response |-> [message |-> SafeErrorText,
                   session_id |-> session.session_id,
                   timestamp |-> t,
                   risk_level |-> "unknown",
                   crisis_resources |-> <<ErrorCrisisResources>>,
                   therapist_notified |-> TRUE]]


\* emergency resources behind the consent check of send_chat_message
get_emergency_resources_with_consent_check(session) ==
    IF session.consent_status # "granted"
    THEN [status |-> 403, audit |-> <<>>, response |-> <<>>]
    ELSE [status |-> 200,
          audit |-> << AuditLogEntry(session.therapist_id, session.patient_id,
                                     "emergency_resources_access", "crisis_support", "success") >>,
          response |-> <<EmergencyInfo>>]

\* get_emergency_resources, given the session the dependency returned
get_emergency_resources(session) ==
    [status |-> 200,
     audit |-> << AuditLogEntry(session.therapist_id, session.patient_id,
                                "emergency_resources_access", "crisis_support", "success") >>,
     response |-> <<EmergencyInfo>>]

\* get_session_info
get_session_info(session) ==
    [session_id |-> session.session_id,
     started_at |-> session.started_at,
     message_count |-> session.message_count,
     last_activity |-> session.last_activity,
     consent_status |-> session.consent_status]

\* provide_consent: the audit entry it writes and its reply
provide_consent(patient_id, consent_granted) ==
    [audit |-> << AuditLogEntry("<None>", patient_id, "consent_provided", "patient_consent",
                                IF consent_granted THEN "success" ELSE "declined") >>,
     response |-> [message |-> IF consent_granted
                               THEN << "Thank you for providing consent. You can now use the AI chatbot." >>
                               ELSE << "Consent declined. The AI chatbot will not be available." >>,
                   consent_recorded |-> consent_granted]]

\* get_conversation_history: the reply built from the context stored under the session's id
get_conversation_history(session, contexts, limit) ==
    LET context == contexts[session.session_id]
        recent_messages == PySliceFrom(context.conversation_history, 0 - limit)
    IN [session_id |-> session.session_id,
        message_count |-> Len(recent_messages),
        messages |-> [i \in 1..Len(recent_messages) |->
                        [timestamp |-> recent_messages[i].timestamp,
                         type |-> recent_messages[i].message_type,
                         content |-> IF recent_messages[i].message_type # "system_note"
                                     THEN recent_messages[i].content
                                     ELSE <<"[","S","y","s","t","e","m"," ","m","e","s","s","a","g","e","]">>,
                         from |-> IF recent_messages[i].message_type = "patient_message"
                                  THEN "You" ELSE "AI Support"]]]

----------------------------------------------------------------------------
(* The public API, src/api/main.py *)

\* Python values: a dict is a function from its keys, None and a list are tagged
EmptyDict == [k \in {} |-> 0]
PyDict(items) == [type |-> "dict", items |-> items]
PyNone == [type |-> "NoneType", items |-> EmptyDict]
PyList == [type |-> "list", items |-> EmptyDict]
IsDict(v) == v.type = "dict"

\* dict.get(key, default)
Get(d, key, default) == IF key \in DOMAIN d THEN d[key] ELSE default

\* truth value of an Optional[str] (None and "" are falsy)
Truthy(opt) == opt # <<>> /\ opt[1] # ""

\* an Optional[str] as a header value (None is sent as "None")
Str(opt) == IF opt = <<>> THEN "None" ELSE opt[1]

\* str.upper() on one character (ASCII)
UpperChar(c) ==
    IF \E i \in 1..Len(LowerCase) : LowerCase[i] = c
    THEN UpperCase[CHOOSE i \in 1..Len(LowerCase) : LowerCase[i] = c]
    ELSE c

\* contacts as the CRM returns them: dicts of strings
ContactAnn ==
    [id |-> <<"c","1">>, firstName |-> <<"a","n","n">>, lastName |-> <<"L","e","e">>,
     source |-> <<"A","p","p","o","i","n","t","m","e","n","t"," ","f","o","r","m">>]
ContactAnonymous == [id |-> <<"c","2">>]

\* the "result" member the MCP server sends for a tool
ToolResults(tool_name) ==
    IF tool_name = "contacts_search"
    THEN { PyDict([contacts |-> <<ContactAnn, ContactAnonymous>>]), PyDict([contacts |-> <<>>]) }
    ELSE IF tool_name = "conversations_get"
    THEN { PyDict([conversations |-> <<"conv1", "conv2", "conv3">>]) }
    ELSE IF tool_name = "contacts_create"
    THEN { PyDict([contact |-> [id |-> <<"c","9">>]]),
           PyDict([contact |-> [email |-> <<"a","@","x",".","i","o">>]]),
           PyDict([error |-> "Contact validation failed"]) }
    ELSE { PyDict([ok |-> TRUE]) }

\* response bodies: text that is no JSON, a JSON array, a JSON-RPC error object,
\* an object whose "result" is null, an object with a "result"
Bodies(tool_name) ==
    { [json |-> FALSE, value |-> PyNone],
      [json |-> TRUE, value |-> PyList],
      [json |-> TRUE, value |-> PyDict([jsonrpc |-> PyNone, error |-> PyNone])],
      [json |-> TRUE, value |-> PyDict([jsonrpc |-> PyNone, result |-> PyNone])] } \cup
    { [json |-> TRUE, value |-> PyDict([jsonrpc |-> PyNone, result |-> r])] : r \in ToolResults(tool_name) }

\* what `await client.post(...)` does: it raises, or returns a response
HttpOutcomes(tool_name) ==
    { [kind |-> "exception", status_code |-> 0, body |-> [json |-> FALSE, value |-> PyNone]] } \cup
    { [kind |-> "response", status_code |-> sc, body |-> [json |-> FALSE, value |-> PyNone]]
        : sc \in {401, 500} } \cup
    { [kind |-> "response", status_code |-> 200, body |-> b] : b \in Bodies(tool_name) }

MockMarker == PyDict([mock |-> TRUE, message |-> "GHL not configured, using demo data"])

\* the configuration test with `and` in place of `or`
ghl_unconfigured_both_missing == ~Truthy(GHL_API_KEY) /\ ~Truthy(GHL_LOCATION_ID)

\* make_ghl_request, line 35: `not GHL_API_KEY or not GHL_LOCATION_ID`
ghl_unconfigured == ~Truthy(GHL_API_KEY) \/ ~Truthy(GHL_LOCATION_ID)

\* make_ghl_request: what it returns, whether it raises, and the POSTs it sends,
\* given what the POST does
make_ghl_request(tool_name, arguments, outcome) ==
    IF ghl_unconfigured
    THEN [tool_name |-> tool_name, ret |-> MockMarker, raised |-> FALSE, posts |-> <<>>,
          outcome |-> <<>>]
    ELSE LET mcp_request ==
                 [url |-> "/mcp", method |-> "tools/call", name |-> tool_name,
                  arguments |-> arguments,
                  authorization |-> <<"Bearer", Str(GHL_API_KEY)>>,
                  locationId |-> Str(GHL_LOCATION_ID)]
             ret ==
                 IF outcome.kind = "exception"
                 THEN PyDict([error |-> "Failed to connect to GHL MCP: <exception>"])
                 ELSE IF outcome.status_code = 200
                 THEN IF ~outcome.body.json \/ ~IsDict(outcome.body.value)
                      THEN \* response.json() or result.get raised, caught at line 67
                           PyDict([error |-> "Failed to connect to GHL MCP: <exception>"])
                      ELSE Get(outcome.body.value.items, "result", PyDict(EmptyDict))
                 ELSE PyDict([error |-> "MCP request failed: " \o ToString(outcome.status_code)])
         IN [tool_name |-> tool_name, ret |-> ret, raised |-> FALSE, posts |-> <<mcp_request>>,
             outcome |-> <<outcome>>]

\* DashboardStats(...) with the fields the handler sets; the others keep their defaults
DashboardStats(total_conversations, appointments_booked) ==
    [total_conversations |-> total_conversations,
     conversations_change |-> "+12% from last week",
     appointments_booked |-> appointments_booked,
     appointments_change |-> "+8% from last week",
     conversion_rate |-> "15.8",
     conversion_change |-> "+3% from last week",
     avg_response_time |-> "2.1",
     response_time_change |-> "-0.3s from last week"]

\* DashboardStats()
DefaultDashboardStats == DashboardStats(152, 24)

ChatbotStatus ==
    [status |-> "Active", model |-> "Claude 3.5 Sonnet", knowledge_base |-> "12 documents",
     last_updated |-> "2 days ago"]

RecentConversation(initial, name, preview, status) ==
    [initial |-> initial, name |-> name, preview |-> preview, status |-> status]

\* "appointment" in str(c).lower(): the word can only lie within one value of the dict
appointment_word == <<"a","p","p","o","i","n","t","m","e","n","t">>
MentionsAppointment(c) == \E k \in DOMAIN c : Contains(appointment_word, Lower(c[k]))

\* get_dashboard, lines 149-158: a contact shown as a conversation (time_ago, which
\* depends on hash(), is left out)
ContactAsConversation(contact) ==
    LET firstName == Get(contact, "firstName", <<>>)
    IN RecentConversation(
           IF firstName # <<>> THEN <<UpperChar(firstName[1])>> ELSE <<"?">>,
           Get(contact, "firstName", <<"U","n","k","n","o","w","n">>) \o <<" ">>
               \o Get(contact, "lastName", <<>>),
           <<"C","o","n","t","a","c","t"," ","f","r","o","m"," ">>
               \o Get(contact, "source", <<"w","e","b","s","i","t","e">>),
           "Completed")

\* get_dashboard, the except branch
dashboard_fallback ==
    [overview |-> DefaultDashboardStats,
     recent_conversations |-> << RecentConversation(<<"D">>, <<"Demo User">>,
                                    <<"This is demo data - connect your GHL API to see real data">>, "Demo") >>,
     chatbot_status |-> ChatbotStatus,
     ghl_connected |-> FALSE,
     error |-> <<"AttributeError">>]

\* get_dashboard, line 166: `not contacts_data.get("mock", False)`
ghl_connected_flag(contacts_data) == ~Get(contacts_data.items, "mock", FALSE)

\* get_dashboard, given what the two CRM calls returned
get_dashboard(contacts_data, conversations_data) ==
    IF ~IsDict(contacts_data)
    THEN dashboard_fallback                      \* line 116 raises AttributeError
    ELSE IF Get(contacts_data.items, "mock", FALSE)
    THEN [overview |-> DefaultDashboardStats,
          recent_conversations |->
              << RecentConversation(<<"S">>, <<"Sarah Johnson">>,
                     <<"I'd like to schedule an appointment for next week">>, "Completed"),
                 RecentConversation(<<"M">>, <<"Michael Chen">>,
                     <<"Do you accept insurance for therapy sessions?">>, "Ongoing") >>,
          chatbot_status |-> ChatbotStatus,
          ghl_connected |-> ghl_connected_flag(contacts_data),
          error |-> <<>>]
    ELSE IF ~IsDict(conversations_data)
    THEN dashboard_fallback                      \* line 138 raises AttributeError
    ELSE LET contacts == Get(contacts_data.items, "contacts", <<>>)
             conversations == Get(conversations_data.items, "conversations", <<>>)
             shown == SubSeq(contacts, 1, IF Len(contacts) < 4 THEN Len(contacts) ELSE 4)
         IN [overview |-> DashboardStats(
                              Len(conversations),
                              Cardinality({i \in DOMAIN contacts : MentionsAppointment(contacts[i])})),
             recent_conversations |-> [i \in DOMAIN shown |-> ContactAsConversation(shown[i])],
             chatbot_status |-> ChatbotStatus,
             ghl_connected |-> ghl_connected_flag(contacts_data),
             error |-> <<>>]

\* the latest invocation of a public-API function
PublicInvocation(op, calls, response) == [op |-> op, calls |-> calls, response |-> response]
NoCall == PublicInvocation("none", <<>>, <<>>)

\* POST /api/chat/message, lines 258-336

\* the word lists of the reply logic, lines 293-308
chat_booking_words ==
    << <<"a","p","p","o","i","n","t","m","e","n","t">>,
       <<"s","c","h","e","d","u","l","e">>,
       <<"b","o","o","k">> >>
chat_pricing_words ==
    << <<"p","r","i","c","e">>,
       <<"c","o","s","t">>,
       <<"i","n","s","u","r","a","n","c","e">> >>
chat_location_words ==
    << <<"h","o","u","r","s">>,
       <<"l","o","c","a","t","i","o","n">>,
       <<"a","d","d","r","e","s","s">> >>
chat_contact_words ==
    << <<"n","a","m","e">>,
       <<"e","m","a","i","l">>,
       <<"p","h","o","n","e">>,
       <<"c","o","n","t","a","c","t">> >>

SavedAndScheduling == "Perfect! I've saved your information and someone from our team will contact you within 24 hours to schedule your appointment. What type of session are you most interested in - individual therapy, couples counseling, or an initial consultation?"
AskBeforeScheduling == "I'd be happy to help you schedule an appointment! To get started, could you share your name and email address? Then I can connect you with our scheduling team."
PricingReply == "We accept most major insurance plans and offer competitive self-pay rates. Individual sessions typically range from $120-180. Would you like me to check your specific insurance benefits?"
LocationReply == "We're open Monday-Friday 9am-5pm and offer both in-person and online sessions. Our main office is located at 123 Therapy Lane. Would you like directions or information about online sessions?"
SavedContact == "Thank you! I've saved your contact information. Our team will reach out to you soon. Is there anything specific you'd like to know about our services while we're chatting?"
AskContact == "I'd love to help you get connected with our team! Could you share your name and email address so we can follow up with you?"
GeneralReply == "Thank you for reaching out! I'm here to help you learn about our therapy services and schedule an appointment. What would you like to know more about?"

\* the index of the first space of a string, 0 if it has none
FirstSpace(s) ==
    IF \E i \in 1..Len(s) : s[i] = " "
    THEN CHOOSE i \in 1..Len(s) : s[i] = " " /\ \A j \in 1..(i - 1) : s[j] # " "
    ELSE 0

\* lines 266-275: contact_data from visitor_info
contact_data_of(visitor_info) ==
    LET name == Get(visitor_info, "name", <<>>)
        at == FirstSpace(name)
        keys == (IF Get(visitor_info, "email", <<>>) # <<>> THEN {"email"} ELSE {})
                \cup (IF name # <<>> THEN {"firstName"} ELSE {})
                \cup (IF name # <<>> /\ at > 0 THEN {"lastName"} ELSE {})
                \cup (IF Get(visitor_info, "phone", <<>>) # <<>> THEN {"phone"} ELSE {})
    IN [k \in keys |->
          CASE k = "email" -> visitor_info["email"]
            [] k = "firstName" -> IF at > 0 THEN SubSeq(name, 1, at - 1) ELSE name
            [] k = "lastName" -> SubSeq(name, at + 1, Len(name))
            [] OTHER -> visitor_info["phone"]]

\* lines 279-290: contact_created, given contact_data and what contacts_create returned;
\* contact_result.get raises for a result that is no dict, which line 289 catches
contact_created_of(contact_data, contact_result) ==
    /\ contact_data # EmptyDict
    /\ IsDict(contact_result)
    /\ "error" \notin DOMAIN contact_result.items

\* lines 293-317: the reply and the intent
chat_reply(user_message, contact_created) ==
    IF AnyIn(chat_booking_words, Lower(user_message))
    THEN [message |-> IF contact_created THEN SavedAndScheduling ELSE AskBeforeScheduling,
          intent |-> "booking"]
    ELSE IF AnyIn(chat_pricing_words, Lower(user_message))
    THEN [message |-> PricingReply, intent |-> "pricing"]
    ELSE IF AnyIn(chat_location_words, Lower(user_message))
    THEN [message |-> LocationReply, intent |-> "location"]
    ELSE IF AnyIn(chat_contact_words, Lower(user_message))
    THEN [message |-> IF contact_created THEN SavedContact ELSE AskContact,
          intent |-> "contact_collection"]
    ELSE [message |-> GeneralReply, intent |-> "general"]

\* line 320: contact_result.get("contact", {}).get("id")
contact_id_of(contact_result) == Get(Get(contact_result.items, "contact", EmptyDict), "id", <<>>)

\* lines 329-336: the body returned (timestamp and session_id, which depend on the clock and
\* on hash(), are left out), with the handler's contact_data beside it
chat_body(user_message, contact_data, contact_created, contact_result) ==
    [message |-> chat_reply(user_message, contact_created).message,
     intent |-> chat_reply(user_message, contact_created).intent,
     contact_created |-> contact_created,
     ghl_connected |-> IF contact_created THEN << ~Get(contact_result.items, "mock", FALSE) >>
                       ELSE <<>>,
     contact_data |-> contact_data]

\* the calls chat_message makes, given contact_data and what the two POSTs do
chat_calls(user_message, contact_data, create, note_outcome) ==
    IF contact_data = EmptyDict THEN <<>>
    ELSE IF contact_created_of(contact_data, create.ret) /\ contact_id_of(create.ret) # <<>>
    THEN << create,
            make_ghl_request("contacts_add_note",
                             [contactId |-> contact_id_of(create.ret),
                              note |-> IF Len(user_message) <= 100 THEN user_message
                                       ELSE SubSeq(user_message, 1, 100)], note_outcome) >>
    ELSE << create >>

\* the arguments of the contacts_create call, lines 281-285
create_arguments(contact_data) ==
    [contact_data |-> contact_data, tags |-> << "website_visitor", "chatbot_lead" >>,
     source |-> "Moonraker Engage Chatbot"]

\* chat_message from line 279 on, given contact_data and what contacts_create returned
chat_message_created(user_message, contact_data, create, note_outcome) ==
    PublicInvocation("chat_message",
        chat_calls(user_message, contact_data, create, note_outcome),
        << chat_body(user_message, contact_data,
                     contact_created_of(contact_data, create.ret), create.ret) >>)

chat_message_with(user_message, contact_data, create_outcome, note_outcome) ==
    chat_message_created(user_message, contact_data,
        make_ghl_request("contacts_create", create_arguments(contact_data), create_outcome),
        note_outcome)

\* chat_message: the calls it made and the body it returned
chat_message(message, create_outcome, note_outcome) ==
    chat_message_with(Get(message, "message", <<>>),
                      contact_data_of(Get(message, "visitor_info", EmptyDict)),
                      create_outcome, note_outcome)

\* the bodies clients post: a message with or without visitor_info
UserMessages == { <<"B","o","o","k"," ","m","e">>, <<"m","y"," ","e","m","a","i","l">>, <<"h","e","l","l","o">> }
VisitorInfos ==
    { EmptyDict,
      [email |-> <<"a","@","x",".","i","o">>],
      [email |-> <<>>],
      [name |-> <<"A","n","n"," ","L","e","e">>, phone |-> <<"5","5","5">>],
      [name |-> <<"B","o">>] }
ChatRequests ==
    { [message |-> m] : m \in UserMessages } \cup
    { [message |-> m, visitor_info |-> v] : m \in UserMessages, v \in VisitorInfos }

\* what the POST of contacts_add_note does: it raises, or the note is added
NoteOutcomes ==
    {o \in HttpOutcomes("contacts_add_note") :
        o.kind = "exception" \/ (o.status_code = 200 /\ o.body.json /\ IsDict(o.body.value)
                                  /\ "result" \in DOMAIN o.body.value.items
                                  /\ IsDict(o.body.value.items["result"]))}

\* the public API at rest, unconfigured
PublicIdle ==
    /\ GHL_API_KEY = <<>>
    /\ GHL_LOCATION_ID = <<>>
    /\ pub = NoCall

----------------------------------------------------------------------------
(* The CRM client of the therapist interface, src/src/ghl/mcp_client.py *)

\* GHLCredentials of the client: None, or an api_key and a location_id
ClientCredentials == { <<>>, << [api_key |-> "pit-key", location_id |-> "loc-1"] >> }

\* `"error" in result` for a decoded body: a TypeError for None, a membership test
\* for a list (the array sent holds no such element), a key test for a dict
ErrorInResult(result) ==
    IF result.type = "NoneType" THEN "TypeError"
    ELSE IF result.type = "list" THEN "absent"
    ELSE IF "error" \in DOMAIN result.items THEN "present" ELSE "absent"

\* a client that sends the POST a second time before giving up
_make_mcp_request_retrying(credentials, method, tool_name, arguments, therapist_id, patient_id, outcome) ==
    LET entry(o) == AuditLogEntry(therapist_id, patient_id, "ghl_mcp_" \o tool_name, "ghl_api", o)
        mcp_request == [url |-> "/mcp", method |-> method, name |-> tool_name, arguments |-> arguments]
    IN [tool_name |-> tool_name, audit |-> << entry("started"), entry("failure") >>,
        posts |-> <<mcp_request, mcp_request>>, outcome |-> outcome,
        ret |-> <<>>, raised |-> <<"MCPError">>]

\* _make_mcp_request: the audit entries it writes, the POSTs it sends, what it returns
\* or the MCPError it raises, given the client's credentials and what the POST does
_make_mcp_request(credentials, method, tool_name, arguments, therapist_id, patient_id, outcome) ==
    LET entry(o) == AuditLogEntry(therapist_id, patient_id, "ghl_mcp_" \o tool_name, "ghl_api", o)
        mcp_request ==
            [url |-> "/mcp", method |-> method, name |-> tool_name, arguments |-> arguments,
             authorization |-> IF credentials # <<>> THEN <<"Bearer", credentials[1].api_key>> ELSE <<>>,
             locationId |-> IF credentials # <<>> THEN <<credentials[1].location_id>> ELSE <<>>]
        failed(audit) ==
            [tool_name |-> tool_name, audit |-> audit \o << entry("failure") >>,
             posts |-> <<mcp_request>>, outcome |-> outcome,
             ret |-> <<>>, raised |-> <<"MCPError">>]
    IN IF outcome.kind = "exception" THEN failed(<< entry("started") >>)
       ELSE IF outcome.status_code # 200 THEN failed(<< entry("started") >>)
       ELSE IF ~outcome.body.json THEN failed(<< entry("started") >>)
       ELSE IF ErrorInResult(outcome.body.value) # "absent" THEN failed(<< entry("started") >>)
       ELSE IF ~IsDict(outcome.body.value)
       THEN \* "success" is logged at line 137, then result.get raises at line 145
            failed(<< entry("started"), entry("success") >>)
       ELSE [tool_name |-> tool_name, audit |-> << entry("started"), entry("success") >>,
             posts |-> <<mcp_request>>, outcome |-> outcome,
             ret |-> << Get(outcome.body.value.items, "result", PyDict(EmptyDict)) >>,
             raised |-> <<>>]

NoMcpCall ==
    [tool_name |-> "none", audit |-> <<>>, posts |-> <<>>, outcome |-> <<>>, ret |-> <<>>,
     raised |-> <<>>]

McpIdle == mcp = NoMcpCall

\* _ensure_therapy_calendar, line 413: the name it looks for and creates
TherapyCalendarName == "Therapy Sessions"

\* a calendar of the location as the CRM keeps it; created_by is the call whose
\* calendars_create made it, 0 for a calendar that was there before
Calendar(id, name, created_by) == [id |-> id, name |-> name, created_by |-> created_by]

\* what the POST of a tool call does when the CRM answers with this result
Answered(result) ==
    [kind |-> "response", status_code |-> 200,
     body |-> [json |-> TRUE, value |-> PyDict([jsonrpc |-> PyNone, result |-> result])]]

\* what the POST does when the CRM cannot be reached
Unreachable == [kind |-> "exception", status_code |-> 0, body |-> [json |-> FALSE, value |-> PyNone]]

\* _ensure_therapy_calendar, lines 411-415: the loop over result.get("calendars", []);
\* the id of the first calendar named "Therapy Sessions", or nothing when the loop ends
RECURSIVE find_therapy_calendar(_)
find_therapy_calendar(calendars) ==
    IF calendars = <<>> THEN <<>>
    ELSE IF calendars[1].name = TherapyCalendarName THEN << calendars[1].id >>
    ELSE find_therapy_calendar(Tail(calendars))

\* _ensure_therapy_calendar, lines 418-426
calendar_data ==
    [name |-> TherapyCalendarName, description |-> "Calendar for individual therapy sessions",
     eventTitle |-> "Therapy Session", eventColor |-> "#2196F3",
     slotDuration |-> 50, slotInterval |-> 60, slotBuffer |-> 10]

\* _ensure_therapy_calendar, line 435: create_result.get("calendar", {}).get("id"),
\* an id, or None (the empty sequence)
created_calendar_id(create_result) ==
    IF "id" \in DOMAIN Get(create_result.items, "calendar", PyDict(EmptyDict)).items
    THEN << Get(create_result.items, "calendar", PyDict(EmptyDict)).items.id >>
    ELSE <<>>

\* a schedule_therapy_session call in progress: the await it is suspended at or how it
\* ended, the tool calls it has issued, whether the listing it received held a calendar
\* named "Therapy Sessions", and what _ensure_therapy_calendar returned to it
ScheduleCall(pc, tools, listed, calendar_id) ==
    [pc |-> pc, tools |-> tools, listed |-> listed, calendar_id |-> calendar_id]

NoScheduleCall == ScheduleCall("calendars_list", <<>>, <<>>, <<>>)

\* schedule_therapy_session up to the answer of calendars_list (lines 251, 404-415)
schedule_therapy_session_listed(call, request) ==
    IF request.raised # <<>>
    THEN ScheduleCall("raised", Append(call.tools, request.tool_name), <<>>, <<>>)
    ELSE LET found == find_therapy_calendar(Get(request.ret[1].items, "calendars", <<>>))
         IN IF found # <<>>
            THEN ScheduleCall("calendars_create_appointment",
                              Append(call.tools, request.tool_name), <<TRUE>>, << found >>)
            ELSE ScheduleCall("calendars_create",
                              Append(call.tools, request.tool_name), <<FALSE>>, <<>>)

\* schedule_therapy_session up to the answer of calendars_create (lines 428-435)
schedule_therapy_session_created(call, request) ==
    IF request.raised # <<>>
    THEN ScheduleCall("raised", Append(call.tools, request.tool_name), call.listed, <<>>)
    ELSE ScheduleCall("calendars_create_appointment", Append(call.tools, request.tool_name),
                      call.listed, << created_calendar_id(request.ret[1]) >>)

\* schedule_therapy_session up to its return (lines 264-283); appointment["id"] raises
\* a KeyError when the result holds no appointment
schedule_therapy_session_finish(call, request) ==
    IF request.raised # <<>>
    THEN ScheduleCall("raised", Append(call.tools, request.tool_name), call.listed, call.calendar_id)
    ELSE IF "id" \notin DOMAIN Get(request.ret[1].items, "appointment", PyDict(EmptyDict)).items
    THEN ScheduleCall("raised", Append(call.tools, request.tool_name), call.listed, call.calendar_id)
    ELSE ScheduleCall("returned", Append(call.tools, request.tool_name), call.listed, call.calendar_id)

NoCalendars == [calendars |-> <<>>, calls |-> <<>>]

GhlIdle == ghl = NoCalendars

----------------------------------------------------------------------------
(* The sales chatbot, src/src/ai/sales_chatbot.py *)

booking_keywords ==
    { <<"a","p","p","o","i","n","t","m","e","n","t">>,
      <<"s","c","h","e","d","u","l","e">>,
      <<"b","o","o","k">>,
      <<"a","v","a","i","l","a","b","l","e">>,
      <<"s","e","s","s","i","o","n">>,
      <<"c","o","n","s","u","l","t","a","t","i","o","n">>,
      <<"m","e","e","t","i","n","g">>,
      <<"t","i","m","e">>,
      <<"c","a","l","e","n","d","a","r">>,
      <<"a","v","a","i","l","a","b","i","l","i","t","y">> }

service_keywords ==
    { <<"t","h","e","r","a","p","y">>,
      <<"c","o","u","n","s","e","l","i","n","g">>,
      <<"t","r","e","a","t","m","e","n","t">>,
      <<"h","e","l","p">>,
      <<"s","e","r","v","i","c","e","s">>,
      <<"w","h","a","t"," ","d","o"," ","y","o","u"," ","d","o">>,
      <<"s","p","e","c","i","a","l","i","z","e">>,
      <<"a","p","p","r","o","a","c","h">>,
      <<"m","e","t","h","o","d","s">> }

pricing_keywords ==
    { <<"c","o","s","t">>,
      <<"p","r","i","c","e">>,
      <<"f","e","e">>,
      <<"i","n","s","u","r","a","n","c","e">>,
      <<"p","a","y","m","e","n","t">>,
      <<"c","h","a","r","g","e">>,
      <<"h","o","w"," ","m","u","c","h">>,
      <<"a","f","f","o","r","d","a","b","l","e">>,
      <<"b","i","l","l","i","n","g">>,
      <<"c","o","p","a","y">> }

emergency_keywords ==
    { <<"e","m","e","r","g","e","n","c","y">>,
      <<"c","r","i","s","i","s">>,
      <<"s","u","i","c","i","d","e">>,
      <<"h","a","r","m">>,
      <<"u","r","g","e","n","t">>,
      <<"h","e","l","p"," ","m","e">> }

\* character classes of the regular expressions
Letters == Range(LowerCase) \cup Range(UpperCase)
Digits == {"0","1","2","3","4","5","6","7","8","9"}
Whitespace == {" "}
WordChars == Letters \cup Digits \cup {"_"}

\* \b before position i of s (i in 1..Len(s)+1)
WordBoundary(s, i) ==
    (i > 1 /\ s[i-1] \in WordChars) # (i <= Len(s) /\ s[i] \in WordChars)

AllIn(s, from, to, class) == \A k \in from..to : s[k] \in class

\* s[i..j] matches \b[A-Za-z0-9._%+-]+@[A-Za-z0-9.-]+\.[A-Z|a-z]{2,}\b
EmailMatch(s, i, j) ==
    /\ WordBoundary(s, i)
    /\ WordBoundary(s, j + 1)
    /\ \E a \in (i+1)..j : \E d \in (a+2)..(j-2) :
          /\ AllIn(s, i, a - 1, Letters \cup Digits \cup {".", "_", "%", "+", "-"})
          /\ s[a] = "@"
          /\ AllIn(s, a + 1, d - 1, Letters \cup Digits \cup {".", "-"})
          /\ s[d] = "."
          /\ AllIn(s, d + 1, j, Letters \cup {"|"})

\* s[i..j] matches \b\d{3}[-.]?\d{3}[-.]?\d{4}\b
PhoneMatchPlain(s, i, j) ==
    /\ WordBoundary(s, i)
    /\ WordBoundary(s, j + 1)
    /\ \E s1 \in {0, 1}, s2 \in {0, 1} :
          /\ j = i + 9 + s1 + s2
          /\ AllIn(s, i, i + 2, Digits)
          /\ s1 = 1 => s[i+3] \in {"-", "."}
          /\ AllIn(s, i + 3 + s1, i + 5 + s1, Digits)
          /\ s2 = 1 => s[i+6+s1] \in {"-", "."}
          /\ AllIn(s, i + 6 + s1 + s2, j, Digits)

\* s[i..j] matches \(\d{3}\)\s*\d{3}[-.]?\d{4}\b
PhoneMatchParen(s, i, j) ==
    /\ WordBoundary(s, j + 1)
    /\ i + 4 <= j
    /\ s[i] = "("
    /\ AllIn(s, i + 1, i + 3, Digits)
    /\ s[i+4] = ")"
    /\ \E w \in 0..(j - i) : \E s2 \in {0, 1} :
          /\ j = i + 4 + w + 7 + s2
          /\ AllIn(s, i + 5, i + 4 + w, Whitespace)
          /\ AllIn(s, i + 5 + w, i + 7 + w, Digits)
          /\ s2 = 1 => s[i+8+w] \in {"-", "."}
          /\ AllIn(s, i + 8 + w + s2, j, Digits)

\* the spans <<i, j>> of s that match
Spans(s) == {p \in (1..Len(s)) \X (1..Len(s)) : p[1] <= p[2]}
EmailSpans(s) == {p \in Spans(s) : EmailMatch(s, p[1], p[2])}
PhonePlainSpans(s) == {p \in Spans(s) : PhoneMatchPlain(s, p[1], p[2])}
PhoneParenSpans(s) == {p \in Spans(s) : PhoneMatchParen(s, p[1], p[2])}

\* re.search(...).group(): the leftmost match, the longest from there; None if none
Search(s, spans) ==
    IF spans = {} THEN <<>>
    ELSE LET first == CHOOSE p \in spans : \A q \in spans :
                          p[1] < q[1] \/ (p[1] = q[1] /\ p[2] >= q[2])
         IN << SubSeq(s, first[1], first[2]) >>

\* prefix occurs in s at position i
OccursAt(prefix, s, i) ==
    /\ i + Len(prefix) - 1 <= Len(s)
    /\ SubSeq(s, i, i + Len(prefix) - 1) = prefix

\* re.search(prefix + '([A-Za-z\s]+)', s).group(1)
SearchAfter(prefix, s) ==
    LET starts == {i \in 1..Len(s) :
                      /\ OccursAt(prefix, s, i)
                      /\ i + Len(prefix) <= Len(s)
                      /\ s[i + Len(prefix)] \in Letters \cup Whitespace}
    IN IF starts = {} THEN <<>>
       ELSE LET i == CHOOSE x \in starts : \A y \in starts : x <= y
                g == i + Len(prefix)
                ends == {j \in g..Len(s) : AllIn(s, g, j, Letters \cup Whitespace)}
                j == CHOOSE x \in ends : \A y \in ends : x >= y
            IN << SubSeq(s, g, j) >>

\* str.strip()
Strip(s) ==
    LET keep == {i \in 1..Len(s) : s[i] \notin Whitespace}
    IN IF keep = {} THEN <<>>
       ELSE SubSeq(s, CHOOSE x \in keep : \A y \in keep : x <= y,
                      CHOOSE x \in keep : \A y \in keep : x >= y)

\* str.title()
Title(s) ==
    [i \in 1..Len(s) |->
        IF i = 1 \/ s[i-1] \notin Letters THEN UpperChar(s[i]) ELSE LowerChar(s[i])]

name_prefixes ==
    << <<"m","y"," ","n","a","m","e"," ","i","s"," ">>,
       <<"i","'","m"," ">>,
       <<"t","h","i","s"," ","i","s"," ">> >>

\* the first of the name patterns that matches decides
NameSearch(lowered) ==
    IF SearchAfter(name_prefixes[1], lowered) # <<>> THEN SearchAfter(name_prefixes[1], lowered)
    ELSE IF SearchAfter(name_prefixes[2], lowered) # <<>> THEN SearchAfter(name_prefixes[2], lowered)
    ELSE SearchAfter(name_prefixes[3], lowered)

\* the second phone pattern is tried when the first finds nothing
PhoneSearch(message, plain) ==
    IF plain # <<>> THEN plain ELSE Search(message, PhoneParenSpans(message))

\* _extract_contact_info, the dict built from the three searches
contact_info(email_match, phone_match, name_match) ==
    [k \in (IF email_match # <<>> THEN {"email"} ELSE {})
           \cup (IF phone_match # <<>> THEN {"phone"} ELSE {})
           \cup (IF name_match # <<>> THEN {"name"} ELSE {}) |->
        IF k = "email" THEN email_match[1]
        ELSE IF k = "phone" THEN phone_match[1]
        ELSE Title(Strip(name_match[1]))]

\* _extract_contact_info: a dict with the keys found among email, phone, name
_extract_contact_info(message) ==
    contact_info(Search(message, EmailSpans(message)),
                 PhoneSearch(message, Search(message, PhonePlainSpans(message))),
                 NameSearch(Lower(message)))

\* what visitors write
BookingScript ==
    << { <<"b","o","o","k",","," ","m","y"," ","n","a","m","e"," ","i","s"," ","a","n","n">>, <<"S","c","h","e","d","u","l","e",":"," ","t","h","i","s"," ","i","s"," ","b","o">> },
       { <<"s","c","h","e","d","u","l","e"," ","a","n","n","@","x",".","i","o">>, <<"b","o","o","k"," ","b","o","@","y",".","o","r","g">> },
       { <<"b","o","o","k"," ","5","5","5","-","1","2","3","-","4","5","6","7">>, <<"b","o","o","k"," ","(","5","5","5",")"," ","1","2","3","-","4","5","6","7">> },
       { <<"I","n","i","t","i","a","l"," ","C","o","n","s","u","l","t","a","t","i","o","n">>, <<"b","o","o","k"," ","C","o","u","p","l","e","s"," ","T","h","e","r","a","p","y">> } >>

BookingMessages == UNION Range(BookingScript)

VisitorMessages ==
    BookingMessages \cup
    { <<"H","e","l","p"," ","m","e"," ","b","o","o","k">>,
      <<"c","o","s","t"," ","o","f"," ","t","h","e","r","a","p","y">>,
      <<"w","h","a","t"," ","t","h","e","r","a","p","y","?">>,
      <<"h","e","l","l","o">> }

\* _classify_intent, lines 207-219: the keyword groups in their order; "" when no
\* keyword of any group occurs
keyword_intent_of(message_lower) ==
    IF \E k \in emergency_keywords : Contains(k, message_lower) THEN "emergency"
    ELSE IF \E k \in booking_keywords : Contains(k, message_lower) THEN "booking"
    ELSE IF \E k \in pricing_keywords : Contains(k, message_lower) THEN "pricing"
    ELSE IF \E k \in service_keywords : Contains(k, message_lower) THEN "services"
    ELSE ""

keyword_intent == [m \in VisitorMessages |-> keyword_intent_of(Lower(m))]

\* _extract_contact_info of each message
extracted_contact_info == [m \in VisitorMessages |-> _extract_contact_info(m)]

\* dict.update
Update(d, e) == [k \in DOMAIN d \cup DOMAIN e |-> IF k \in DOMAIN e THEN e[k] ELSE d[k]]

\* truth value of d.get(k) for a dict of strings
HasValue(d, k) == k \in DOMAIN d /\ d[k] # <<>>

\* AppointmentConfig().appointment_types
appointment_types == <<"Initial Consultation", "Individual Therapy", "Couples Therapy">>

ChatbotContext(conversation_id, current_intent, collected_info, conversation_history) ==
    [practice_id |-> "practice_1",
     conversation_id |-> conversation_id,
     conversation_history |-> conversation_history,
     appointment_types |-> appointment_types,
     current_intent |-> current_intent,
     collected_info |-> collected_info]

\* a context as a caller makes it: nothing collected, no history
NewChatbotContext == ChatbotContext("conv_1", <<>>, EmptyDict, <<>>)

ChatbotResponse(message, intent, requires_followup, collected_data, next_action, booking_ready) ==
    [message |-> message, intent |-> intent, requires_followup |-> requires_followup,
     collected_data |-> collected_data, next_action |-> next_action,
     booking_ready |-> booking_ready]

\* models/practice.py ChatMessage (id and timestamp, both taken from the clock, left out)
ChatMessage(conversation_id, sender, message, intent) ==
    [conversation_id |-> conversation_id, sender |-> sender, message |-> message,
     intent |-> intent]

\* what self.intent_classifier(...) does: it raises, or predicts an intent
ClassifierOutcomes ==
    { [raises |-> TRUE, intent |-> ""] } \cup
    { [raises |-> FALSE, intent |-> i] : i \in {"booking", "emergency", "general", "question"} }

\* what self.booking_assistant(...) does: it raises or returns (its result is not used)
AssistantOutcomes == { "raises", "returns" }

\* _classify_intent: the intent, whether the classifier was consulted, whether it raised
classify_llm_first(keyword, classification) ==
    [intent |-> classification.intent, consulted |-> TRUE, raised |-> classification.raises]

classify(keyword, classification) ==
    IF keyword # ""
    THEN [intent |-> keyword, consulted |-> FALSE, raised |-> FALSE]
    ELSE [intent |-> classification.intent, consulted |-> TRUE, raised |-> classification.raises]

_classify_intent(message, classification) == classify(keyword_intent[message], classification)

EmergencyResponseText ==
    << "I'm concerned about your safety and want to make sure you get immediate help.",
       "Crisis Text Line: Text HOME to 741741",
       "988 Suicide & Crisis Lifeline: Call or text 988",
       "Emergency Services: Call 911 if you're in immediate danger",
       "Our practice staff can also help connect you with crisis resources. Would you like me to have someone call you today?" >>

_handle_emergency(message, context) ==
    ChatbotResponse(EmergencyResponseText, "emergency", TRUE, EmptyDict, <<"notify_staff">>, FALSE)

\* _handle_booking_intent, lines 273-291: the branch taken
booking_next_action(collected, new_info) ==
    IF ~HasValue(collected, "name") /\ ~HasValue(new_info, "name") THEN "collect_name"
    ELSE IF ~HasValue(collected, "email") /\ ~HasValue(new_info, "email") THEN "collect_email"
    ELSE IF ~HasValue(collected, "phone") /\ ~HasValue(new_info, "phone") THEN "collect_phone"
    ELSE IF ~HasValue(collected, "appointment_type") THEN "collect_appointment_type"
    ELSE "show_calendar"

\* _handle_booking_intent, the reply of the branch taken
booking_response(context, collected, new_info, next_action) ==
    ChatbotResponse(
        IF next_action = "collect_name"
        THEN <<"I'd be happy to help you schedule an appointment! We offer ">>
                 \o context.appointment_types \o <<". May I start by getting your name?">>
        ELSE IF next_action = "collect_email"
        THEN <<"Thanks ">> \o Get(collected, "name", <<"for your interest">>)
                 \o <<"! What's the best email address to send your appointment confirmation?">>
        ELSE IF next_action = "collect_phone"
        THEN <<"Great! And what's a good phone number where we can reach you?">>
        ELSE IF next_action = "collect_appointment_type"
        THEN <<"Perfect! What type of appointment are you looking for?">>
                 \o context.appointment_types
        ELSE <<"Excellent! I have all your information. Let me show you our available times for ">>
                 \o Get(collected, "appointment_type", <<"your appointment">>)
                 \o <<". What day works best for you this week or next?">>,
        "booking", TRUE, new_info, <<next_action>>, next_action = "show_calendar")

_handle_booking_intent(message, context) ==
    booking_response(context, context.collected_info, extracted_contact_info[message],
                     booking_next_action(context.collected_info, extracted_contact_info[message]))

_handle_services_inquiry(message, context) ==
    ChatbotResponse(<<"We offer a range of mental health services including: ...">>,
                    "services", TRUE, EmptyDict, <<"encourage_booking">>, FALSE)

_handle_pricing_inquiry(message, context) ==
    ChatbotResponse(<<"Here's information about our fees and insurance: ...">>,
                    "pricing", TRUE, EmptyDict, <<"encourage_booking">>, FALSE)

_handle_general_inquiry(message, context) ==
    ChatbotResponse(<<"Thanks for reaching out! I'm here to help you learn about our practice and schedule an appointment. ...">>,
                    "general", TRUE, EmptyDict, <<>>, FALSE)

FallbackResponseText ==
    <<"I apologize, but I'm having some technical difficulties. Please feel free to call us directly or try again in a moment. For urgent matters, you can reach us at our main number.">>

\* a handler that records the failed turn in the context before answering
sales_except_marking_context(context, calls) ==
    [response |-> ChatbotResponse(FallbackResponseText, "error", TRUE, EmptyDict, <<>>, FALSE),
     context |-> [context EXCEPT !.current_intent = <<"error">>],
     raised |-> FALSE, exception |-> <<"Exception">>, calls |-> calls]

\* process_message, the except branch
sales_except(context, calls) ==
    [response |-> ChatbotResponse(FallbackResponseText, "error", TRUE, EmptyDict, <<>>, FALSE),
     context |-> context,
     raised |-> FALSE, exception |-> <<"Exception">>, calls |-> calls]

\* process_message, steps 4 and 5: the context updated with the turn
sales_finish(visitor_message, context, intent, response, calls) ==
    [response |-> response,
     context |-> [context EXCEPT
                    !.current_intent = <<intent>>,
                    !.collected_info = Update(@, response.collected_data),
                    !.conversation_history =
                        @ \o << ChatMessage(context.conversation_id, "visitor", visitor_message, intent),
                                ChatMessage(context.conversation_id, "bot", response.message,
                                            response.intent) >>],
     raised |-> FALSE, exception |-> <<>>, calls |-> calls]

\* process_message, steps 2 and 3, once the intent is classified
sales_respond(visitor_message, context, intent_result, calls, assistant) ==
    IF intent_result.raised THEN sales_except(context, calls)
    ELSE IF intent_result.intent = "emergency"
    THEN [response |-> _handle_emergency(visitor_message, context), context |-> context,
          raised |-> FALSE, exception |-> <<>>, calls |-> calls]
    ELSE IF intent_result.intent = "booking"
    THEN IF assistant = "raises"
         THEN sales_except(context, calls \o <<"booking_assistant">>)
         ELSE sales_finish(visitor_message, context, intent_result.intent,
                           _handle_booking_intent(visitor_message, context),
                           calls \o <<"booking_assistant">>)
    ELSE IF intent_result.intent = "services"
    THEN sales_finish(visitor_message, context, intent_result.intent,
                      _handle_services_inquiry(visitor_message, context), calls)
    ELSE IF intent_result.intent = "pricing"
    THEN sales_finish(visitor_message, context, intent_result.intent,
                      _handle_pricing_inquiry(visitor_message, context), calls)
    ELSE sales_finish(visitor_message, context, intent_result.intent,
                      _handle_general_inquiry(visitor_message, context), calls)

\* the calls made while classifying
classifier_calls(intent_result) ==
    IF intent_result.consulted THEN <<"intent_classifier">> ELSE <<>>

\* SalesChatbot.process_message: the response and context it returns, given what the
\* classifier and the booking assistant do if called
SalesChatbot_process_message(visitor_message, context, classification, assistant) ==
    sales_respond(visitor_message, context, _classify_intent(visitor_message, classification),
                  classifier_calls(_classify_intent(visitor_message, classification)), assistant)

\* a conversation: the visitor's latest message, the chatbot's context and what the
\* latest call of process_message returned
Conversation(message, context, result) == [message |-> message, context |-> context, result |-> result]

NoConversation == Conversation(<<>>, NewChatbotContext, <<>>)

\* the caller keeps the context process_message returned
Turn(message, result) == Conversation(message, result.context, <<result>>)

SalesIdle == sales = NoConversation

----------------------------------------------------------------------------
(* Bearer-token authentication, src/src/core/security.py and the two dependencies
   get_current_practice (src/src/api/dashboard.py) and get_current_therapist
   (src/src/api/therapist_interface.py) *)

\* settings.secret_key and a key the service does not hold
SigningKeys == {"secret_key", "foreign_key"}

\* the "sub" claim of a token: absent, empty, or an id
Subjects == {<<>>, <<"">>, <<"practice_1">>, <<"therapist_7">>}

\* a bearer token as the client sends it: whether it parses as a JWT at all, the key that
\* signed it, whether its "exp" lies in the past, and its subject
BearerTokens == [wellformed : BOOLEAN, key : SigningKeys, expired : BOOLEAN, sub : Subjects]

\* the claims a token carries
Payload(token) ==
    IF token.sub = <<>> THEN [type |-> "access"]
    ELSE [sub |-> token.sub[1], type |-> "access"]

\* jose.jwt.decode(token, secret_key, algorithms=[algorithm]): JWTError for a token that
\* does not parse, whose signature was not made with secret_key, or that has expired
jwt_decode(token) ==
    IF token.wellformed /\ token.key = "secret_key" /\ ~token.expired
    THEN [raised |-> <<>>, ret |-> Payload(token)]
    ELSE [raised |-> <<"JWTError">>, ret |-> EmptyDict]

\* JWTManager.verify_token
verify_token(token) ==
    LET decoded == jwt_decode(token)
    IN IF decoded.raised = <<>> THEN decoded
       ELSE [raised |-> <<"SecurityError">>, ret |-> EmptyDict]

\* token_data.get("sub")
sub_of(token_data) == IF "sub" \in DOMAIN token_data THEN << token_data["sub"] >> ELSE <<>>

\* what a dependency hands to FastAPI: the value for the endpoint, or an HTTPException
Authenticated(id) == [status |-> 200, detail |-> <<>>, id |-> <<id>>]
HTTPException(status_code, detail) == [status |-> status_code, detail |-> <<detail>>, id |-> <<>>]

\* the try block of get_current_practice and of get_current_therapist
dependency_try(token) ==
    LET verified == verify_token(token)
        sub == sub_of(verified.ret)
    IN IF verified.raised # <<>>
       THEN [raised |-> verified.raised, ret |-> HTTPException(500, "unhandled")]
       ELSE IF ~Truthy(sub)
            THEN [raised |-> <<"HTTPException">>,
                  ret |-> HTTPException(401, "Invalid authentication token")]
            ELSE [raised |-> <<>>, ret |-> Authenticated(sub[1])]

\* get_current_practice: "except Exception" encloses the whole try block, the
\* HTTPException raised inside it included
get_current_practice(token) ==
    LET body == dependency_try(token)
    IN IF body.raised = <<>> THEN body.ret
       ELSE HTTPException(401, "Could not validate credentials")

\* the mock TherapistResponse get_current_therapist builds for a subject
TherapistResponse(therapist_id) ==
    [id |-> therapist_id, email |-> "therapist@example.com", license_type |-> "lmft",
     license_state |-> "CA", status |-> "active", is_verified |-> TRUE]

\* get_current_therapist: the same try block, returning the mock therapist
get_current_therapist(token) ==
    LET body == dependency_try(token)
    IN IF body.raised = <<>>
       THEN [status |-> 200, detail |-> <<>>, id |-> << TherapistResponse(body.ret.id[1]).id >>]
       ELSE HTTPException(401, "Could not validate credentials")

----------------------------------------------------------------------------
(* Encryption, src/src/core/security.py (HIPAAEncryption) and GHLCredentials of
   src/src/models/therapist.py.

   A str is a sequence of characters [c |-> ...], a bytes object a sequence of bytes
   [byte |-> ...].  Fernet and base64 are modelled symbolically: a Fernet token is one
   unit [fernet |-> ...] that names the key and the initialisation vector it was made
   with, the plaintext it carries and the key its HMAC was computed with; a character of
   base64 text is [b64 |-> u] for the unit u it encodes (the regrouping of three bytes
   into four characters is left out).  Base64 text is ASCII, so its characters and its
   bytes are the same units. *)

\* a character no UTF-8 encoding exists for (a lone surrogate, "\ud800")
Surrogate == "U+D800"

Chr(x) == [c |-> x]
Byte(x) == [byte |-> x]

\* str.encode('utf-8') of one character: ASCII characters keep their code, e-acute takes
\* two bytes
Utf8Char(ch) == IF ch.c = "U+00E9" THEN << Byte("0xC3"), Byte("0xA9") >> ELSE << Byte(ch.c) >>

IsByte(u) == DOMAIN u = {"byte"}
IsB64(u) == DOMAIN u = {"b64"}
IsFernet(u) == DOMAIN u = {"fernet"}

RECURSIVE Utf8Bytes(_)
Utf8Bytes(s) == IF s = <<>> THEN <<>> ELSE Utf8Char(Head(s)) \o Utf8Bytes(Tail(s))

\* str.encode('utf-8'): UnicodeEncodeError for a string with a lone surrogate
Utf8Encode(s) ==
    IF \E i \in 1..Len(s) : s[i].c = Surrogate
    THEN [raised |-> <<"UnicodeEncodeError">>, ret |-> <<>>]
    ELSE [raised |-> <<>>, ret |-> Utf8Bytes(s)]

\* whether a bytes object is well-formed UTF-8: 0xC3 is always followed by 0xA9, and 0xA9
\* always follows 0xC3
Utf8Valid(b) ==
    /\ \A i \in 1..Len(b) : IsByte(b[i])
    /\ \A i \in 1..Len(b) : b[i].byte = "0xC3" => (i < Len(b) /\ b[i + 1].byte = "0xA9")
    /\ \A i \in 1..Len(b) : b[i].byte = "0xA9" => (i > 1 /\ b[i - 1].byte = "0xC3")

RECURSIVE Utf8Chars(_)
Utf8Chars(b) ==
    IF b = <<>> THEN <<>>
    ELSE IF Head(b).byte = "0xC3" THEN << Chr("U+00E9") >> \o Utf8Chars(Tail(Tail(b)))
         ELSE << Chr(Head(b).byte) >> \o Utf8Chars(Tail(b))

\* bytes.decode('utf-8')
Utf8Decode(b) ==
    IF Utf8Valid(b) THEN [raised |-> <<>>, ret |-> Utf8Chars(b)]
    ELSE [raised |-> <<"UnicodeDecodeError">>, ret |-> <<>>]

\* base64.urlsafe_b64encode
RECURSIVE B64Encode(_)
B64Encode(b) == IF b = <<>> THEN <<>> ELSE << [b64 |-> Head(b)] >> \o B64Encode(Tail(b))

\* base64.urlsafe_b64decode: validate is off, so the characters outside the base64
\* alphabet are discarded before decoding
RECURSIVE B64Decode(_)
B64Decode(text) ==
    IF text = <<>> THEN <<>>
    ELSE IF IsB64(Head(text)) THEN << Head(text).b64 >> \o B64Decode(Tail(text))
         ELSE B64Decode(Tail(text))

\* settings.patient_data_encryption_key and another password
EncryptionKeys == {"patient_data_encryption_key", "database_encryption_key"}

\* HIPAAEncryption._derive_key: PBKDF2 with a fixed salt, a function of the password
_derive_key(password) == << "pbkdf2", password >>

\* the initialisation vectors (and timestamps) Fernet may draw
IVs == {1, 2}

\* Fernet(key).encrypt(data) with the vector iv
FernetEncrypt(key, data, iv) ==
    B64Encode(<< [fernet |-> [key |-> key, iv |-> iv, data |-> data, hmac |-> key]] >>)

\* Fernet(key).decrypt(token): InvalidToken unless the token is one Fernet token made and
\* authenticated with key
FernetDecrypt(key, token) ==
    LET raw == B64Decode(token)
    IN IF /\ Len(raw) = 1
          /\ IsFernet(raw[1])
          /\ raw[1].fernet.key = key
          /\ raw[1].fernet.hmac = key
       THEN [raised |-> <<>>, ret |-> raw[1].fernet.data]
       ELSE [raised |-> <<"InvalidToken">>, ret |-> <<>>]

\* HIPAAEncryption(encryption_key).encrypt(data) for a str
encrypt(encryption_key, data, iv) ==
    LET encoded == Utf8Encode(data)
    IN IF encoded.raised # <<>> THEN encoded
       ELSE [raised |-> <<>>,
             ret |-> B64Encode(FernetEncrypt(_derive_key(encryption_key), encoded.ret, iv))]

\* the rest of the try block of decrypt once Fernet has answered
decrypt_decode(decrypted_data) ==
    IF decrypted_data.raised # <<>> THEN [raised |-> <<"SecurityError">>, ret |-> <<>>]
    ELSE IF ~Utf8Valid(decrypted_data.ret) THEN [raised |-> <<"SecurityError">>, ret |-> <<>>]
         ELSE Utf8Decode(decrypted_data.ret)

\* decrypt over a cipher that does not authenticate its tokens
FernetDecryptUnauthenticated(token) ==
    IF Len(B64Decode(token)) = 1 /\ IsFernet(B64Decode(token)[1])
    THEN [raised |-> <<>>, ret |-> B64Decode(token)[1].fernet.data]
    ELSE [raised |-> <<"InvalidToken">>, ret |-> <<>>]

decrypt_unauthenticated(encryption_key, encrypted_data) ==
    decrypt_decode(FernetDecryptUnauthenticated(B64Decode(encrypted_data)))

\* HIPAAEncryption(encryption_key).decrypt(encrypted_data): every exception of the try
\* block becomes SecurityError
decrypt(encryption_key, encrypted_data) ==
    decrypt_decode(FernetDecrypt(_derive_key(encryption_key), B64Decode(encrypted_data)))

\* JSON values of a flat dictionary: strings, null and numbers; a datetime stands for the
\* values json has no form for
JStr(x) == [t |-> "str", v |-> x]
JNull == [t |-> "null", v |-> "None"]
JInt(x) == [t |-> "int", v |-> x]
PyDatetime(x) == [t |-> "datetime", v |-> x]

\* the strings that occur as keys and values
Quotable ==
    {"api_key", "location_id", "webhook_url", "note", "pit-1", "loc-1", "hook", "null", "7",
     "2025-01-01"}

\* a string as a JSON string literal
Quote(x) ==
    CASE x = "api_key" -> "\"api_key\""
      [] x = "location_id" -> "\"location_id\""
      [] x = "webhook_url" -> "\"webhook_url\""
      [] x = "note" -> "\"note\""
      [] x = "pit-1" -> "\"pit-1\""
      [] x = "loc-1" -> "\"loc-1\""
      [] x = "hook" -> "\"hook\""
      [] x = "null" -> "\"null\""
      [] x = "7" -> "\"7\""
      [] x = "2025-01-01" -> "\"2025-01-01\""

IsQuoted(literal) == \E x \in Quotable : Quote(x) = literal
Unquote(literal) == CHOOSE x \in Quotable : Quote(x) = literal

\* json.dumps of one value; default=str turns a value json has no form for into the
\* string str() gives
JsonLiteral(value) ==
    CASE value.t = "str" -> Quote(value.v)
      [] value.t = "null" -> "null"
      [] value.t = "int" -> value.v
      [] OTHER -> Quote(value.v)

\* json.loads of one literal
JsonValue(literal) ==
    IF literal = "null" THEN JNull
    ELSE IF IsQuoted(literal) THEN JStr(Unquote(literal))
         ELSE JInt(literal)

\* the order in which the keys of a dictionary are written
KeyOrder == << "api_key", "location_id", "webhook_url", "note" >>

RECURSIVE JsonItems(_, _)
JsonItems(data, keys) ==
    IF keys = <<>> THEN <<>>
    ELSE IF Head(keys) \notin DOMAIN data THEN JsonItems(data, Tail(keys))
         ELSE << Chr(","), Chr(Quote(Head(keys))), Chr(":"), Chr(JsonLiteral(data[Head(keys)])) >>
              \o JsonItems(data, Tail(keys))

\* json.dumps(data, default=str): the text, one character per token
json_dumps(data) ==
    IF DOMAIN data = {} THEN << Chr("{"), Chr("}") >>
    ELSE << Chr("{") >> \o Tail(JsonItems(data, KeyOrder)) \o << Chr("}") >>

\* whether text is the JSON text of a flat dictionary
JsonWellFormed(text) ==
    /\ Len(text) >= 2
    /\ text[1].c = "{"
    /\ text[Len(text)].c = "}"
    /\ (Len(text) = 2 \/ Len(text) % 4 = 1)
    /\ \A i \in 2..(Len(text) - 1) :
          CASE i % 4 = 2 -> IsQuoted(text[i].c)
            [] i % 4 = 3 -> text[i].c = ":"
            [] i % 4 = 0 -> text[i].c \notin {"{", "}", ":", ","}
            [] OTHER -> text[i].c = ","

\* json.loads(text)
json_loads(text) ==
    IF ~JsonWellFormed(text) THEN [raised |-> <<"JSONDecodeError">>, ret |-> EmptyDict]
    ELSE LET at == {i \in 2..(Len(text) - 1) : i % 4 = 2}
         IN [raised |-> <<>>,
             ret |-> [k \in {Unquote(text[i].c) : i \in at} |->
                        JsonValue(text[(CHOOSE i \in at : Unquote(text[i].c) = k) + 2].c)]]

\* HIPAAEncryption.encrypt_dict
encrypt_dict(encryption_key, data, iv) == encrypt(encryption_key, json_dumps(data), iv)

\* HIPAAEncryption.decrypt_dict
decrypt_dict(encryption_key, encrypted_data) ==
    IF decrypt(encryption_key, encrypted_data).raised # <<>>
    THEN [raised |-> <<"SecurityError">>, ret |-> EmptyDict]
    ELSE json_loads(decrypt(encryption_key, encrypted_data).ret)

\* GHLCredentials(api_key, location_id, webhook_url=None)
GHLCredentials(api_key, location_id, webhook_url) ==
    [api_key |-> api_key, location_id |-> location_id, webhook_url |-> webhook_url]

\* GHLCredentials.model_dump
model_dump(credentials) ==
    [k \in {"api_key", "location_id", "webhook_url"} |->
        CASE k = "api_key" -> JStr(credentials.api_key)
          [] k = "location_id" -> JStr(credentials.location_id)
          [] OTHER -> IF credentials.webhook_url = <<>> THEN JNull
                      ELSE JStr(credentials.webhook_url[1])]

\* GHLCredentials.encrypt, over patient_encryption
GHLCredentials_encrypt(credentials, iv) ==
    encrypt_dict("patient_data_encryption_key", model_dump(credentials), iv)

\* cls(**decrypted_data): the fields are validated
GHLCredentials_new(data) ==
    IF /\ {"api_key", "location_id"} \subseteq DOMAIN data
       /\ data["api_key"].t = "str"
       /\ data["location_id"].t = "str"
       /\ ("webhook_url" \in DOMAIN data => data["webhook_url"].t \in {"str", "null"})
    THEN [raised |-> <<>>,
          ret |-> << GHLCredentials(data["api_key"].v, data["location_id"].v,
                                    IF "webhook_url" \in DOMAIN data /\ data["webhook_url"].t = "str"
                                    THEN << data["webhook_url"].v >> ELSE <<>>) >>]
    ELSE [raised |-> <<"ValidationError">>, ret |-> <<>>]

\* GHLCredentials.decrypt
GHLCredentials_decrypt(encrypted_data) ==
    IF decrypt_dict("patient_data_encryption_key", encrypted_data).raised # <<>>
    THEN [raised |-> decrypt_dict("patient_data_encryption_key", encrypted_data).raised,
          ret |-> <<>>]
    ELSE GHLCredentials_new(decrypt_dict("patient_data_encryption_key", encrypted_data).ret)

\* the latest call of a function of this section
UtilCall(fn, key, arg, encrypted, result) ==
    [fn |-> fn, key |-> key, arg |-> arg, encrypted |-> encrypted, result |-> result]

NoUtilCall == UtilCall("none", <<>>, <<>>, <<>>, <<>>)

UtilIdle == util = NoUtilCall

----------------------------------------------------------------------------
(* The latest handler step *)

Invocation(req, op, session_id, message, state, status, response, calls, crisis_result, ai_response, crisis_alert, exception) ==
    [req |-> req, op |-> op, session_id |-> session_id, message |-> message,
     state |-> state,            \* "returned", "raised" or "suspended"
     status |-> status,          \* HTTP status of the reply (0 while suspended)
     response |-> response,      \* Optional: the body returned
     calls |-> calls,            \* the calls this invocation has made, in order
     crisis_result |-> crisis_result,   \* Optional: what _detect_crisis returned
     ai_response |-> ai_response,       \* Optional: process_message's AIResponse
     crisis_alert |-> crisis_alert,     \* Optional: process_message's CrisisAlert
     exception |-> exception]           \* Optional: the exception `e` caught by `except Exception as e`

NoInvocation == Invocation(0, "none", "", <<>>, "returned", 0, <<>>, <<>>, <<>>, <<>>, <<>>, <<>>)

----------------------------------------------------------------------------
(* Initial state: the module-level dictionaries are empty *)

Init ==
    /\ active_sessions = <<>>
    /\ conversation_contexts = <<>>
    /\ audit_log = <<>>
    /\ pending = {}
    /\ last = NoInvocation
    /\ now = 1
    /\ nreq = 0
    /\ PublicIdle
    /\ McpIdle
    /\ GhlIdle
    /\ SalesIdle
    /\ UtilIdle

----------------------------------------------------------------------------
(* send_chat_message *)

\* process_message returned ai_response: the rest of process_message and of send_chat_message
Complete(req, session_id, message, ai_response, sessions, contexts, audit_prefix, calls, crisis_result) ==
    LET pm == process_message_finish(message, ai_response, contexts[session_id], now)
        fin == send_chat_message_finish(sessions[session_id], pm.ai_response, pm.crisis_alert, now)
    IN /\ active_sessions' = [sessions EXCEPT ![session_id] = fin.session]
       /\ conversation_contexts' = [contexts EXCEPT ![session_id] = pm.context]
       /\ audit_log' = audit_prefix \o pm.audit \o fin.audit
       /\ last' = Invocation(req, "send_chat_message", session_id, message, "returned", 200,
                             <<fin.response>>, calls \o fin.calls, crisis_result,
                             <<pm.ai_response>>, pm.crisis_alert, <<>>)

\* process_message raised: its except branch, then the except branch of send_chat_message
Fail(req, session_id, message, sessions, contexts, audit_prefix, calls, crisis_result, exception) ==
    LET ex == send_chat_message_except(sessions[session_id], now)
    IN /\ active_sessions' = [sessions EXCEPT ![session_id] = ex.session]
       /\ conversation_contexts' = contexts
       /\ audit_log' = audit_prefix \o process_message_except(contexts[session_id]) \o ex.audit
       /\ last' = Invocation(req, "send_chat_message", session_id, message, "returned", 200,
                             <<ex.response>>, calls \o ex.calls, crisis_result, <<>>, <<>>,
                             <<exception>>)

\* the entry lands in every context, as with one history list shared by all contexts
append_patient_message_shared(contexts, session_id, entry) ==
    [s \in DOMAIN contexts |->
        [contexts[s] EXCEPT !.conversation_history = Append(@, entry)]]

\* send_chat_message, lines 137-148: the patient's entry is appended to the history of
\* the context stored under the session's id
append_patient_message(contexts, session_id, entry) ==
    [contexts EXCEPT ![session_id].conversation_history = Append(@, entry)]

\* a consent check that refuses only a revoked consent
consent_check_only_revoked(session) == session.consent_status # "revoked"

\* the consent check at the top of send_chat_message
consent_check_passes(session) == session.consent_status = "granted"

\* POST /chat/message up to its first suspension (`await self.agent.run`) or to its return
SendChatMessage(header, message, prediction) ==
    /\ nreq < MaxReq
    /\ LET session_id == SessionIdOf(header, now)
           dep == get_patient_session(session_id, now)
           session == dep.sessions[session_id]
           req == nreq + 1
       IN IF ~consent_check_passes(session)
          THEN /\ active_sessions' = dep.sessions
               /\ conversation_contexts' = dep.contexts
               /\ UNCHANGED <<audit_log, pending>>
               /\ last' = Invocation(req, "send_chat_message", session_id, message, "raised", 403,
                                     <<>>, <<>>, <<>>, <<>>, <<>>, <<>>)
          ELSE LET patient_message_entry ==
                       ConversationEntry(now, "patient_message", message, {}, FALSE, FALSE)
                   contexts1 == append_patient_message(dep.contexts, session_id, patient_message_entry)
                   audit1 == audit_log
                             \o << AuditLogEntry(session.therapist_id, session.patient_id,
                                                 "patient_chat_message", "ai_chatbot", "started"),
                                   AuditLogEntry(session.therapist_id, session.patient_id,
                                                 "ai_message_processing", "patient_conversation", "started") >>
                   crisis_result == _detect_crisis(message, prediction)
               IN IF prediction.raises
                  THEN /\ Fail(req, session_id, message, dep.sessions, contexts1, audit1,
                               <<"crisis_detector">>, <<>>, "crisis_detector raised")
                       /\ pending' = pending
                  ELSE IF crisis_result.immediate_response
                  THEN /\ Complete(req, session_id, message, _handle_crisis_response(message),
                                   dep.sessions, contexts1, audit1,
                                   <<"crisis_detector">>, <<crisis_result>>)
                       /\ pending' = pending
                  ELSE /\ active_sessions' = dep.sessions
                       /\ conversation_contexts' = contexts1
                       /\ audit_log' = audit1
                       /\ pending' = pending \cup
                              { [req |-> req, session_id |-> session_id, message |-> message,
                                 crisis_result |-> crisis_result,
                                 calls |-> <<"crisis_detector", "agent.run">>] }
                       /\ last' = Invocation(req, "send_chat_message", session_id, message,
                                             "suspended", 0, <<>>,
                                             <<"crisis_detector", "agent.run">>,
                                             <<crisis_result>>, <<>>, <<>>, <<>>)
    /\ now' = now + 1
    /\ nreq' = nreq + 1
    /\ UNCHANGED <<pubvars, libvars>>

\* `await self.agent.run(...)` completes for a suspended invocation, which runs to its return
AgentReturns(p, outcome) ==
    /\ p \in pending
    /\ pending' = pending \ {p}
    /\ IF outcome.raises
       THEN Fail(p.req, p.session_id, p.message, active_sessions, conversation_contexts,
                 audit_log, p.calls, <<p.crisis_result>>, "agent.run raised")
       ELSE Complete(p.req, p.session_id, p.message, outcome.data[1], active_sessions,
                     conversation_contexts, audit_log, p.calls, <<p.crisis_result>>)
    /\ UNCHANGED <<now, nreq>>
    /\ UNCHANGED <<pubvars, libvars>>

----------------------------------------------------------------------------
(* The other patient-chatbot endpoints (no suspension point) *)

GetEmergencyResources(header) ==
    /\ nreq < MaxReq
    /\ LET session_id == SessionIdOf(header, now)
           dep == get_patient_session(session_id, now)
           r == get_emergency_resources(dep.sessions[session_id])
       IN /\ active_sessions' = dep.sessions
          /\ conversation_contexts' = dep.contexts
          /\ audit_log' = IF r.status = 200 THEN audit_log \o r.audit ELSE audit_log
          /\ last' = Invocation(nreq + 1, "get_emergency_resources", session_id, <<>>,
                                IF r.status = 200 THEN "returned" ELSE "raised", r.status,
                                r.response, <<>>, <<>>, <<>>, <<>>, <<>>)
    /\ pending' = pending
    /\ now' = now + 1
    /\ nreq' = nreq + 1
    /\ UNCHANGED <<pubvars, libvars>>

GetSessionInfo(header) ==
    /\ nreq < MaxReq
    /\ LET session_id == SessionIdOf(header, now)
           dep == get_patient_session(session_id, now)
       IN /\ active_sessions' = dep.sessions
          /\ conversation_contexts' = dep.contexts
          /\ last' = Invocation(nreq + 1, "get_session_info", session_id, <<>>, "returned", 200,
                                << get_session_info(dep.sessions[session_id]) >>,
                                <<>>, <<>>, <<>>, <<>>, <<>>)
    /\ UNCHANGED <<audit_log, pending>>
    /\ now' = now + 1
    /\ nreq' = nreq + 1
    /\ UNCHANGED <<pubvars, libvars>>

ProvideConsent(patient_id, consent_granted) ==
    /\ nreq < MaxReq
    /\ LET r == provide_consent(patient_id, consent_granted)
       IN /\ audit_log' = audit_log \o r.audit
          /\ last' = Invocation(nreq + 1, "provide_consent", "", <<>>, "returned", 200,
                                <<r.response>>, <<>>, <<>>, <<>>, <<>>, <<>>)
    /\ UNCHANGED <<active_sessions, conversation_contexts, pending>>
    /\ now' = now + 1
    /\ nreq' = nreq + 1
    /\ UNCHANGED <<pubvars, libvars>>

GetConversationHistory(header, limit) ==
    /\ nreq < MaxReq
    /\ LET session_id == SessionIdOf(header, now)
           dep == get_patient_session(session_id, now)
           session == dep.sessions[session_id]
       IN /\ active_sessions' = dep.sessions
          /\ conversation_contexts' = dep.contexts
          /\ audit_log' = audit_log
                 \o << AuditLogEntry(session.therapist_id, session.patient_id,
                                     "conversation_history_access", "patient_conversation", "success") >>
          /\ last' = Invocation(nreq + 1, "get_conversation_history", session_id, <<>>,
                                "returned", 200,
                                << get_conversation_history(session, dep.contexts, limit) >>,
                                <<>>, <<>>, <<>>, <<>>, <<>>)
    /\ pending' = pending
    /\ now' = now + 1
    /\ nreq' = nreq + 1
    /\ UNCHANGED <<pubvars, libvars>>

\* ConsentRequest.patient_id
PatientIds == {"patient_A"}

\* a request arrives at one of the endpoints
Arrival ==
    \/ \E h \in SessionHeaders, m \in Messages, d \in Predictions : SendChatMessage(h, m, d)
    \/ \E h \in SessionHeaders : GetEmergencyResources(h)
    \/ \E h \in SessionHeaders : GetSessionInfo(h)
    \/ \E pid \in PatientIds, g \in BOOLEAN : ProvideConsent(pid, g)
    \/ \E h \in SessionHeaders, l \in Limits : GetConversationHistory(h, l)

Resume == \E p \in pending, o \in AgentOutcomes : AgentReturns(p, o)

Next == Arrival \/ Resume

Spec == Init /\ [][Next]_vars

----------------------------------------------------------------------------
(* send_chat_message as a function of its `session` parameter: the store holds a      *)
(* session "A" whose consent_status is any member of ConsentStatus (line 91: "Would    *)
(* check actual consent"), with its context.                                            *)

MaxConsentReq == 2   \* requests received in one run of SpecConsent

InitConsent ==
    /\ \E c \in ConsentStatus :
          active_sessions = ("A" :> [NewSession("A", 0) EXCEPT !.consent_status = c])
    /\ conversation_contexts = ("A" :> NewContext(NewSession("A", 0)))
    /\ audit_log = <<>>
    /\ pending = {}
    /\ last = NoInvocation
    /\ now = 1
    /\ nreq = 0
    /\ PublicIdle
    /\ McpIdle
    /\ GhlIdle
    /\ SalesIdle
    /\ UtilIdle

NextConsent == (nreq < MaxConsentReq /\ Arrival) \/ Resume

SpecConsent == InitConsent /\ [][NextConsent]_vars

----------------------------------------------------------------------------
(* The public API: requests *)

\* os.getenv: unset, set to the empty string, or set
EnvValues(v) == { <<>>, <<"">>, <<v>> }

ToolNames == {"contacts_search", "conversations_get", "contacts_create"}

InitPublic ==
    /\ active_sessions = <<>>
    /\ conversation_contexts = <<>>
    /\ audit_log = <<>>
    /\ pending = {}
    /\ last = NoInvocation
    /\ now = 1
    /\ nreq = 0
    /\ GHL_API_KEY \in EnvValues("pit-key")
    /\ GHL_LOCATION_ID \in EnvValues("loc-1")
    /\ pub = NoCall
    /\ McpIdle
    /\ GhlIdle
    /\ SalesIdle
    /\ UtilIdle

\* a direct call of make_ghl_request
MakeGhlRequest(tool_name, outcome) ==
    /\ pub' = PublicInvocation("make_ghl_request",
                               << make_ghl_request(tool_name, [limit |-> 10], outcome) >>, <<>>)
    /\ UNCHANGED <<GHL_API_KEY, GHL_LOCATION_ID>>
    /\ UNCHANGED <<chatvars, libvars>>

\* GET /api/dashboard
GetDashboard(contacts_outcome, conversations_outcome) ==
    /\ LET c1 == make_ghl_request("contacts_search", [limit |-> 10], contacts_outcome)
           c2 == make_ghl_request("conversations_get", [limit |-> 20], conversations_outcome)
       IN pub' = PublicInvocation("get_dashboard", <<c1, c2>>, << get_dashboard(c1.ret, c2.ret) >>)
    /\ UNCHANGED <<GHL_API_KEY, GHL_LOCATION_ID>>
    /\ UNCHANGED <<chatvars, libvars>>

\* a call of _make_mcp_request on a client made for the request
MakeMcpRequest(credentials, tool_name, patient_id, outcome) ==
    /\ mcp' = _make_mcp_request(credentials, "tools/call", tool_name, [limit |-> 10],
                                "therapist_123", patient_id, outcome)
    /\ UNCHANGED <<sales, util, ghl>>
    /\ UNCHANGED <<chatvars, pubvars>>

\* POST /api/chat/message
ChatMessageRequest(message, create_outcome, note_outcome) ==
    /\ pub' = chat_message(message, create_outcome, note_outcome)
    /\ UNCHANGED <<GHL_API_KEY, GHL_LOCATION_ID>>
    /\ UNCHANGED <<chatvars, libvars>>

NextPublic ==
    \/ \E c \in ClientCredentials, t \in ToolNames, p \in {<<>>, <<"patient_A">>} :
          \E o \in HttpOutcomes(t) : MakeMcpRequest(c, t, p, o)
    \/ \E t \in ToolNames : \E o \in HttpOutcomes(t) : MakeGhlRequest(t, o)
    \/ \E o1 \in HttpOutcomes("contacts_search"), o2 \in HttpOutcomes("conversations_get") :
          GetDashboard(o1, o2)

SpecPublic == InitPublic /\ [][NextPublic]_vars

\* the chat endpoint on its own, under every configuration
NextChatMessage ==
    \E message \in ChatRequests, o1 \in HttpOutcomes("contacts_create"), o2 \in NoteOutcomes :
        ChatMessageRequest(message, o1, o2)

SpecChatMessage == InitPublic /\ [][NextChatMessage]_vars

----------------------------------------------------------------------------
(* The sales chatbot: conversations *)

MaxTurns == 3          \* messages of one conversation in SpecSales
MaxBookingTurns == 6   \* messages of one conversation in SpecBooking

InitSales ==
    /\ active_sessions = <<>>
    /\ conversation_contexts = <<>>
    /\ audit_log = <<>>
    /\ pending = {}
    /\ last = NoInvocation
    /\ now = 1
    /\ nreq = 0
    /\ PublicIdle
    /\ McpIdle
    /\ GhlIdle
    /\ SalesIdle
    /\ UtilIdle

\* the number of turns of the conversation so far (an emergency turn leaves no trace in
\* the history, so the history alone does not bound the conversation)
Turns(conv) == Len(conv.context.conversation_history) \div 2

\* the caller hands the visitor's message and the context to process_message and keeps
\* the context it returns
VisitorMessage(message, classification, assistant) ==
    /\ sales' = Turn(message, SalesChatbot_process_message(message, sales.context,
                                                            classification, assistant))
    /\ UNCHANGED <<mcp, util, ghl>>
    /\ UNCHANGED <<chatvars, pubvars>>

\* a new visitor: a new context
NewConversation ==
    /\ sales' = NoConversation
    /\ UNCHANGED <<mcp, util, ghl>>
    /\ UNCHANGED <<chatvars, pubvars>>

NextSales ==
    \/ /\ Turns(sales) < MaxTurns
       /\ \E m \in VisitorMessages, c \in ClassifierOutcomes, a \in AssistantOutcomes :
             VisitorMessage(m, c, a)
    \/ /\ sales # NoConversation
       /\ NewConversation

SpecSales == InitSales /\ [][NextSales]_vars

\* a visitor who books: every message has a booking keyword; the first four supply a
\* name, an email address, a phone number and an appointment type, in this order, and
\* the visitor goes on answering; the classifier and the assistant work
BookingTurn ==
    /\ Turns(sales) < MaxBookingTurns
    /\ \E m \in (IF Turns(sales) < Len(BookingScript)
                 THEN BookingScript[Turns(sales) + 1] ELSE BookingMessages) :
          VisitorMessage(m, [raises |-> FALSE, intent |-> "booking"], "returns")

\* the visitor gives up, and another visitor arrives
BookingAbandoned ==
    /\ Turns(sales) = MaxBookingTurns
    /\ NewConversation

NextBooking == BookingTurn \/ BookingAbandoned

SpecBooking == InitSales /\ [][NextBooking]_vars /\ WF_vars(NextBooking)

----------------------------------------------------------------------------
(* Authentication and encryption: calls *)

MaxStr == 2

\* the strings handed to encrypt: up to MaxStr characters, ASCII, two-byte and unencodable
Characters == {Chr("a"), Chr("U+00E9"), Chr(Surrogate)}
Strings == UNION {[1..n -> Characters] : n \in 0..MaxStr}
Encodable(s) == \A i \in 1..Len(s) : s[i].c # Surrogate

\* the values encrypt can return under a key
Produced(encryption_key) ==
    {encrypt(encryption_key, s, iv).ret : s \in {x \in Strings : Encodable(x)}, iv \in IVs}

\* a Fernet token whose plaintext was replaced without the key
Forged(unit) ==
    IF IsFernet(unit)
    THEN [fernet |-> [key |-> unit.fernet.key, iv |-> unit.fernet.iv, data |-> << Byte("a") >>,
                      hmac |-> << "forged", "" >>]]
    ELSE unit

RECURSIVE Tampered(_)
Tampered(raw) == IF raw = <<>> THEN <<>> ELSE << Forged(Head(raw)) >> \o Tampered(Tail(raw))

\* what a store may hand back to decrypt for a value c that encrypt returned: c itself, c
\* with characters outside the base64 alphabet around it, c with such a byte inside the
\* outer encoding, the Fernet token without the outer encoding, a tampered token, the
\* empty string, and two values in a row
StoredAs(c) ==
    { c,
      << Chr("!") >> \o c,
      c \o << Chr("=") >>,
      B64Encode(B64Decode(c) \o << Byte(" ") >>),
      B64Decode(c),
      B64Encode(B64Encode(Tampered(B64Decode(B64Decode(c))))),
      <<>>,
      c \o c }

StoredValues == UNION {StoredAs(c) : c \in UNION {Produced(k) : k \in EncryptionKeys}}

\* a stored value with everything both base64 decodings discard removed
Canonical(value) == B64Encode(B64Encode(B64Decode(B64Decode(value))))

\* flat dictionaries of up to two keys
DictKeys == {"api_key", "note"}
DictValues ==
    {JStr("pit-1"), JStr("null"), JStr("7"), JNull, JInt("7"), PyDatetime("2025-01-01")}
Dicts == UNION {[K -> DictValues] : K \in SUBSET DictKeys}
JsonRepresentable(d) == \A k \in DOMAIN d : d[k].t \in {"str", "null", "int"}

CredentialValues ==
    {GHLCredentials(a, "loc-1", w) : a \in {"pit-1", "null"}, w \in {<<>>, << "hook" >>}}

InitSecurity == InitSales

\* a request to a dashboard endpoint with a bearer token
GetCurrentPractice(token) ==
    /\ util' = UtilCall("get_current_practice", <<>>, token, <<>>, get_current_practice(token))
    /\ UNCHANGED <<mcp, sales, ghl>>
    /\ UNCHANGED <<chatvars, pubvars>>

\* a request to a therapist endpoint with a bearer token
GetCurrentTherapist(token) ==
    /\ util' = UtilCall("get_current_therapist", <<>>, token, <<>>, get_current_therapist(token))
    /\ UNCHANGED <<mcp, sales, ghl>>
    /\ UNCHANGED <<chatvars, pubvars>>

\* the answer to decrypt(encrypt(...)) given what encrypt answered
Decrypted(encryption_key, encrypted) ==
    IF encrypted.raised # <<>> THEN encrypted ELSE decrypt(encryption_key, encrypted.ret)

\* decrypt(encrypt(s)) under one key
EncryptDecrypt(encryption_key, s, iv) ==
    /\ util' = UtilCall("encrypt", encryption_key, s, encrypt(encryption_key, s, iv),
                        Decrypted(encryption_key, encrypt(encryption_key, s, iv)))
    /\ UNCHANGED <<mcp, sales, ghl>>
    /\ UNCHANGED <<chatvars, pubvars>>

\* decrypt of a stored value
Decrypt(encryption_key, value) ==
    /\ util' = UtilCall("decrypt", encryption_key, value, <<>>, decrypt(encryption_key, value))
    /\ UNCHANGED <<mcp, sales, ghl>>
    /\ UNCHANGED <<chatvars, pubvars>>

DecryptedDict(encryption_key, encrypted) ==
    IF encrypted.raised # <<>> THEN [raised |-> encrypted.raised, ret |-> EmptyDict]
    ELSE decrypt_dict(encryption_key, encrypted.ret)

\* decrypt_dict(encrypt_dict(d)) under one key
EncryptDecryptDict(encryption_key, d, iv) ==
    /\ util' = UtilCall("encrypt_dict", encryption_key, d, encrypt_dict(encryption_key, d, iv),
                        DecryptedDict(encryption_key, encrypt_dict(encryption_key, d, iv)))
    /\ UNCHANGED <<mcp, sales, ghl>>
    /\ UNCHANGED <<chatvars, pubvars>>

DecryptedCredentials(encrypted) ==
    IF encrypted.raised # <<>> THEN encrypted ELSE GHLCredentials_decrypt(encrypted.ret)

\* GHLCredentials.decrypt(c.encrypt())
EncryptDecryptCredentials(c, iv) ==
    /\ util' = UtilCall("GHLCredentials.encrypt", "patient_data_encryption_key", c,
                        GHLCredentials_encrypt(c, iv),
                        DecryptedCredentials(GHLCredentials_encrypt(c, iv)))
    /\ UNCHANGED <<mcp, sales, ghl>>
    /\ UNCHANGED <<chatvars, pubvars>>

NextSecurity ==
    \/ \E token \in BearerTokens : GetCurrentPractice(token)
    \/ \E token \in BearerTokens : GetCurrentTherapist(token)
    \/ \E k \in EncryptionKeys, s \in Strings, iv \in IVs : EncryptDecrypt(k, s, iv)
    \/ \E k \in EncryptionKeys, value \in StoredValues : Decrypt(k, value)
    \/ \E k \in EncryptionKeys, d \in Dicts, iv \in IVs : EncryptDecryptDict(k, d, iv)
    \/ \E c \in CredentialValues, iv \in IVs : EncryptDecryptCredentials(c, iv)

SpecSecurity == InitSecurity /\ [][NextSecurity]_vars

----------------------------------------------------------------------------
(* Scheduling on the therapist's client: schedule_therapy_session calls of one
   therapist, suspended at each `await`, against the calendars of the CRM location *)

MaxCalls == 2

CallIds == 1..MaxCalls

\* the calendars of the location before the first call: none, one of another name, or
\* a "Therapy Sessions" calendar already there
InitialCalendars ==
    { <<>>, << Calendar(1, "Intake Calls", 0) >>, << Calendar(1, TherapyCalendarName, 0) >> }

TherapistClient == << [api_key |-> "pit-key", location_id |-> "loc-1"] >>

InitCalendar ==
    /\ active_sessions = <<>>
    /\ conversation_contexts = <<>>
    /\ audit_log = <<>>
    /\ pending = {}
    /\ last = NoInvocation
    /\ now = 1
    /\ nreq = 0
    /\ PublicIdle
    /\ McpIdle
    /\ SalesIdle
    /\ UtilIdle
    /\ \E calendars \in InitialCalendars :
           ghl = [calendars |-> calendars, calls |-> [c \in CallIds |-> NoScheduleCall]]

\* the call resumes with the CRM's answer to calendars_list: the calendars of the
\* location at the time the CRM handles the request
ListCalendars(c, reachable) ==
    /\ ghl.calls[c].pc = "calendars_list"
    /\ LET request ==
               _make_mcp_request(TherapistClient, "tools/call", "calendars_list", EmptyDict,
                                 "therapist_123", <<>>,
                                 IF reachable THEN Answered(PyDict([calendars |-> ghl.calendars]))
                                 ELSE Unreachable)
       IN ghl' = [ghl EXCEPT !.calls[c] = schedule_therapy_session_listed(@, request)]
    /\ UNCHANGED <<mcp, sales, util>>
    /\ UNCHANGED <<chatvars, pubvars>>

\* the CRM handles calendars_create, adding a calendar of the name sent, and the call
\* resumes with its answer: the new calendar under "calendar", or the new calendar
\* itself; or the CRM is not reached and nothing is created
CreateCalendar(c, answer) ==
    /\ ghl.calls[c].pc = "calendars_create"
    /\ LET id == Len(ghl.calendars) + 1
           request ==
               _make_mcp_request(TherapistClient, "tools/call", "calendars_create", calendar_data,
                                 "therapist_123", <<>>,
                                 IF answer = "calendar"
                                 THEN Answered(PyDict([calendar |-> PyDict([id |-> id])]))
                                 ELSE IF answer = "bare"
                                 THEN Answered(PyDict([id |-> id]))
                                 ELSE Unreachable)
       IN ghl' = [ghl EXCEPT
                    !.calendars = IF answer = "unreachable" THEN @
                                  ELSE Append(@, Calendar(id, request.posts[1].arguments.name, c)),
                    !.calls[c] = schedule_therapy_session_created(@, request)]
    /\ UNCHANGED <<mcp, sales, util>>
    /\ UNCHANGED <<chatvars, pubvars>>

\* the call resumes with the CRM's answer to calendars_create_appointment and returns
CreateAppointment(c, answer) ==
    /\ ghl.calls[c].pc = "calendars_create_appointment"
    /\ LET request ==
               _make_mcp_request(TherapistClient, "tools/call", "calendars_create_appointment",
                                 [calendarId |-> ghl.calls[c].calendar_id[1],
                                  contactId |-> "contact_1", appointmentStatus |-> "confirmed"],
                                 "therapist_123", <<"contact_1">>,
                                 IF answer = "appointment"
                                 THEN Answered(PyDict([appointment |-> PyDict([id |-> "apt_1"])]))
                                 ELSE IF answer = "empty"
                                 THEN Answered(PyDict(EmptyDict))
                                 ELSE Unreachable)
       IN ghl' = [ghl EXCEPT !.calls[c] = schedule_therapy_session_finish(@, request)]
    /\ UNCHANGED <<mcp, sales, util>>
    /\ UNCHANGED <<chatvars, pubvars>>

NextCalendar ==
    \/ \E c \in CallIds, reachable \in BOOLEAN : ListCalendars(c, reachable)
    \/ \E c \in CallIds, answer \in {"calendar", "bare", "unreachable"} : CreateCalendar(c, answer)
    \/ \E c \in CallIds, answer \in {"appointment", "empty", "unreachable"} :
           CreateAppointment(c, answer)

SpecCalendar == InitCalendar /\ [][NextCalendar]_vars

----------------------------------------------------------------------------
(* Properties of the patient chatbot *)

IsChat(inv) == inv.op = "send_chat_message"
Called(inv, f) == f \in Range(inv.calls)
HasAudit(action, outcome, patient_id) ==
    \E i \in DOMAIN audit_log :
        /\ audit_log[i].action = action
        /\ audit_log[i].outcome = outcome
        /\ audit_log[i].patient_id = patient_id

C2_KeywordAlwaysEscalates ==
    (IsChat(last) /\ last.state = "returned" /\ last.ai_response # <<>>
        /\ detected_keywords[last.message] # <<>>)
    => /\ last.ai_response[1].escalation_required
       /\ last.crisis_alert # <<>>
       /\ last.response[1].therapist_notified
       /\ last.response[1].crisis_resources # <<>>

\* C3: a send_chat_message request for a stored session whose consent_status is not
\* GRANTED raises 403, and that step changes neither dictionary (no history entry, no
\* change of message_count, last_activity, risk_level), makes no call, suspends
\* nothing and writes no audit entry.
C3_NoConsentRejected ==
    [][ (/\ nreq' = nreq + 1
         /\ IsChat(last')
         /\ last'.session_id \in DOMAIN active_sessions
         /\ active_sessions[last'.session_id].consent_status # "granted")
        => (/\ last'.state = "raised"
            /\ last'.status = 403
            /\ last'.calls = <<>>
            /\ active_sessions' = active_sessions
            /\ conversation_contexts' = conversation_contexts
            /\ pending' = pending
            /\ audit_log' = audit_log) ]_vars

C3_Witness ==
    /\ IsChat(last)
    /\ last.status = 403
    /\ active_sessions[last.session_id].consent_status \in {"pending", "revoked", "expired"}

\* C4 (as claimed): a message reaches the AI agent only for a patient for whom
\* provide_consent with consent_granted = true has been recorded, and a patient whose
\* recorded consent decisions include a refusal and no grant is refused.
C4_ConsentRequired ==
    /\ (IsChat(last) /\ Called(last, "crisis_detector"))
       => HasAudit("consent_provided", "success", active_sessions[last.session_id].patient_id)
    /\ (IsChat(last)
        /\ HasAudit("consent_provided", "declined", active_sessions[last.session_id].patient_id)
        /\ ~HasAudit("consent_provided", "success", active_sessions[last.session_id].patient_id))
       => last.status = 403

Shown(entry) ==
    [timestamp |-> entry.timestamp, type |-> entry.message_type, content |-> entry.content,
     from |-> IF entry.message_type = "patient_message" THEN "You" ELSE "AI Support"]

\* C6: a step changes the history of no session but the one whose id the handled
\* request carries, and there only by appending; and get_conversation_history for a
\* session returns entries of that session's history only.  (Hence every entry shown
\* for session A was appended while handling a request carrying session id A.)
C6_HistoryIsolated ==
    [][ /\ \A s \in DOMAIN conversation_contexts :
            LET old == conversation_contexts[s].conversation_history
                new == conversation_contexts'[s].conversation_history
            IN /\ s \in DOMAIN conversation_contexts'
               /\ Len(new) >= Len(old)
               /\ SubSeq(new, 1, Len(old)) = old
               /\ (s # last'.session_id => new = old)
        /\ \A s \in DOMAIN conversation_contexts' \ DOMAIN conversation_contexts :
            s = last'.session_id
        /\ (last'.op = "get_conversation_history")
            => Range(last'.response[1].messages)
                 \subseteq { Shown(e) : e \in Range(conversation_contexts'[last'.session_id].conversation_history) }
      ]_vars

C6_Witness ==
    /\ last.op = "get_conversation_history"
    /\ last.response[1].message_count > 0
    /\ \E s \in DOMAIN conversation_contexts :
          /\ s # last.session_id
          /\ conversation_contexts[s].conversation_history # <<>>

\* C7 (as claimed): a ChatResponse with therapist_notified = true, or with a message
\* telling the patient that the therapist is or will be notified, is returned only by
\* an invocation that has called _notify_therapist_of_crisis and written the audit
\* entry crisis_alert_sent for the session's patient.
C7_NotifiedMeansNotificationSent ==
    (IsChat(last) /\ last.state = "returned"
        /\ (\/ last.response[1].therapist_notified
            \/ last.response[1].message \in {CrisisResponseText, SafeErrorText}))
    => /\ Called(last, "_notify_therapist_of_crisis")
       /\ HasAudit("crisis_alert_sent", "success", active_sessions[last.session_id].patient_id)

\* C8: a send_chat_message invocation that has passed the consent check never raises;
\* when an exception was caught, the step that caught it returns a ChatResponse with
\* risk_level "unknown" and crisis_resources, ends the audit log with the failure entry
\* of patient_chat_message, and leaves the session as get_patient_session handed it over.
C8_FailureContained ==
    [][ (IsChat(last') /\ last' # last /\ last'.status # 403)
        => /\ last'.state \in {"returned", "suspended"}
           /\ (last'.exception # <<>>)
              => /\ last'.state = "returned"
                 /\ last'.response # <<>>
                 /\ last'.response[1].risk_level = "unknown"
                 /\ last'.response[1].crisis_resources # <<>>
                 /\ audit_log'[Len(audit_log')].action = "patient_chat_message"
                 /\ audit_log'[Len(audit_log')].outcome = "failure"
                 /\ active_sessions'[last'.session_id]
                      = get_patient_session(last'.session_id, now).sessions[last'.session_id]
      ]_vars

C8_Witness ==
    /\ IsChat(last)
    /\ last.exception # <<>>
    /\ last.response # <<>>
    /\ active_sessions[last.session_id].message_count > 0

\* the success path of a patient message: the handler returned what process_message and
\* the agent produced
ChatSucceeded(inv) ==
    /\ IsChat(inv)
    /\ inv.state = "returned"
    /\ inv.status = 200
    /\ inv.exception = <<>>
    /\ inv.ai_response # <<>>

\* the entry process_message appended for the latest invocation
LastEntry(inv) ==
    conversation_contexts[inv.session_id].conversation_history[
        Len(conversation_contexts[inv.session_id].conversation_history)]

\* C19: on the success path of a patient message a CrisisAlert exists iff
\* ai_response.escalation_required, the ChatResponse has therapist_notified iff it has
\* crisis_resources iff a CrisisAlert exists, and the ai_response entry appended to the
\* history records escalation_triggered and therapist_notified with that same value.
C19_EscalationSignalsAgree ==
    ChatSucceeded(last) =>
        /\ (last.crisis_alert # <<>>) = last.ai_response[1].escalation_required
        /\ last.response[1].therapist_notified = (last.crisis_alert # <<>>)
        /\ (last.response[1].crisis_resources # <<>>) = (last.crisis_alert # <<>>)
        /\ conversation_contexts[last.session_id].conversation_history # <<>>
        /\ LastEntry(last).message_type = "ai_response"
        /\ LastEntry(last).escalation_triggered = last.ai_response[1].escalation_required
        /\ LastEntry(last).therapist_notified = (last.crisis_alert # <<>>)

\* the agent (not the crisis shortcut) asked for escalation at a risk below high, and the
\* reply carries the notification
C19_Witness ==
    /\ ChatSucceeded(last)
    /\ Called(last, "agent.run")
    /\ last.ai_response[1].escalation_required
    /\ last.ai_response[1].risk_assessment = "moderate"
    /\ last.response[1].therapist_notified
    /\ LastEntry(last).therapist_notified

\* C20: the severity of a CrisisAlert follows the risk assessment of the AI response:
\* crisis gives "critical", high gives "high", moderate gives "medium", and low gives a
\* severity no higher than "medium".
C20_SeverityFollowsRisk ==
    (IsChat(last) /\ last.ai_response # <<>> /\ last.crisis_alert # <<>>) =>
        /\ last.ai_response[1].risk_assessment = "crisis"
              => last.crisis_alert[1].severity = "critical"
        /\ last.ai_response[1].risk_assessment = "high"
              => last.crisis_alert[1].severity = "high"
        /\ last.ai_response[1].risk_assessment = "moderate"
              => last.crisis_alert[1].severity = "medium"
        /\ last.ai_response[1].risk_assessment = "low"
              => last.crisis_alert[1].severity \in {"low", "medium"}

----------------------------------------------------------------------------
(* Properties of the public API *)

\* the CRM request of a call succeeded: it was sent and answered 200 with a JSON object
RequestSucceeded(call) ==
    /\ call.posts # <<>>
    /\ call.outcome[1].kind = "response"
    /\ call.outcome[1].status_code = 200
    /\ call.outcome[1].body.json
    /\ IsDict(call.outcome[1].body.value)

\* C9 (as claimed): when the contacts request of get_dashboard did not succeed, the
\* reply carries the default demo statistics and ghl_connected = false; ghl_connected
\* is true only when the contacts request succeeded.
C9_DashboardFallsBackOnError ==
    (pub.op = "get_dashboard")
    => /\ ~RequestSucceeded(pub.calls[1])
          => /\ pub.response[1].overview = DefaultDashboardStats
             /\ pub.response[1].ghl_connected = FALSE
       /\ pub.response[1].ghl_connected => RequestSucceeded(pub.calls[1])

\* C10: no call of make_ghl_request raises; unconfigured (GHL_API_KEY or GHL_LOCATION_ID
\* unset or empty) it returns the mock marker and sends nothing; configured it sends one
\* POST and returns the "result" member of a 200 JSON object that has one, and a dict
\* with an "error" key for every other status and for an exception of the POST.
C10_MakeGhlRequestTotal ==
    \A i \in DOMAIN pub.calls :
        LET call == pub.calls[i]
            unset == ~Truthy(GHL_API_KEY) \/ ~Truthy(GHL_LOCATION_ID)
        IN /\ ~call.raised
           /\ unset => (call.ret = MockMarker /\ call.posts = <<>>)
           /\ ~unset =>
                /\ Len(call.posts) = 1
                /\ (RequestSucceeded(call) /\ "result" \in DOMAIN call.outcome[1].body.value.items)
                     => call.ret = call.outcome[1].body.value.items["result"]
                /\ (call.outcome[1].kind = "exception" \/ call.outcome[1].status_code # 200)
                     => (IsDict(call.ret) /\ "error" \in DOMAIN call.ret.items)

C10_Witness ==
    /\ pub.op = "make_ghl_request"
    /\ pub.calls[1].posts # <<>>
    /\ pub.calls[1].outcome[1].kind = "response"
    /\ pub.calls[1].outcome[1].status_code = 500
    /\ "error" \in DOMAIN pub.calls[1].ret.items

----------------------------------------------------------------------------
(* Properties of the CRM calls *)

\* C11: no invocation of make_ghl_request (called directly or by get_dashboard) and
\* no invocation of _make_mcp_request sends more than one POST, whether the POST
\* raised, was answered with a status other than 200, with an error body or with a
\* result.
C11_NoRetry ==
    /\ \A i \in DOMAIN pub.calls : Len(pub.calls[i].posts) <= 1
    /\ Len(mcp.posts) <= 1

C11_Witness ==
    /\ \E i \in DOMAIN pub.calls :
          /\ Len(pub.calls[i].posts) = 1
          /\ pub.calls[i].outcome[1].kind = "exception"
    /\ Len(mcp.posts) = 1
    /\ mcp.outcome.kind = "response"
    /\ mcp.outcome.status_code = 500
    /\ mcp.raised # <<>>

\* the number of audit entries of an invocation with the given outcome
McpAuditCount(o) == Cardinality({i \in DOMAIN mcp.audit : mcp.audit[i].outcome = o})

\* C12 (as claimed): an invocation of _make_mcp_request writes "started" first and then
\* exactly one terminal entry, "success" or "failure"; it returns iff "success" was
\* written and raises MCPError iff "failure" was written; every status other than 200
\* and every body with an "error" member ends in "failure".
C12_McpAuditTrail ==
    (mcp # NoMcpCall)
    => /\ mcp.audit[1].outcome = "started"
       /\ McpAuditCount("started") = 1
       /\ McpAuditCount("success") + McpAuditCount("failure") = 1
       /\ Len(mcp.audit) = 2
       /\ (mcp.ret # <<>>) <=> (McpAuditCount("success") = 1)
       /\ (mcp.raised # <<>>) <=> (McpAuditCount("failure") = 1)
       /\ (mcp.outcome.kind = "response" /\ mcp.outcome.status_code # 200)
            => McpAuditCount("failure") = 1
       /\ (mcp.outcome.kind = "response" /\ mcp.outcome.status_code = 200
             /\ mcp.outcome.body.json /\ IsDict(mcp.outcome.body.value)
             /\ "error" \in DOMAIN mcp.outcome.body.value.items)
            => McpAuditCount("failure") = 1

----------------------------------------------------------------------------
(* Properties of the sales chatbot *)

\* C13: a visitor message containing an emergency keyword (case-insensitive substring)
\* is answered with intent "emergency", next_action "notify_staff" and the crisis
\* hotlines, whatever other keywords it contains; the keyword groups decide in the
\* order emergency, booking, pricing, services; and the classifier is consulted only
\* for a message with no keyword of any group.
C13_EmergencyFirst ==
    (sales.result # <<>>)
    => LET m == Lower(sales.message)
           r == sales.result[1]
           has(group) == \E k \in group : Contains(k, m)
           kw == IF has(emergency_keywords) THEN "emergency"
                 ELSE IF has(booking_keywords) THEN "booking"
                 ELSE IF has(pricing_keywords) THEN "pricing"
                 ELSE IF has(service_keywords) THEN "services"
                 ELSE ""
       IN /\ has(emergency_keywords)
             => /\ r.response.intent = "emergency"
                /\ r.response.next_action = <<"notify_staff">>
                /\ r.response.message = EmergencyResponseText
                /\ \E i \in DOMAIN r.response.message : r.response.message[i] = "988 Suicide & Crisis Lifeline: Call or text 988"
                /\ \E i \in DOMAIN r.response.message : r.response.message[i] = "Crisis Text Line: Text HOME to 741741"
          /\ (kw # "" /\ r.exception = <<>>) => r.response.intent = kw
          /\ ("intent_classifier" \in Range(r.calls)) <=> (kw = "")

C13_Witness ==
    /\ sales.result # <<>>
    /\ Contains(<<"h","e","l","p"," ","m","e">>, Lower(sales.message))
    /\ Contains(<<"b","o","o","k">>, Lower(sales.message))
    /\ sales.result[1].response.intent = "emergency"

\* C14: process_message never raises; a call in which the classifier or the booking
\* assistant raised returns the fallback response (intent "error", requires_followup)
\* and a context whose current_intent, collected_info and conversation_history are
\* those it was called with.
C14_SalesFailureContained ==
    [][ (sales'.result # <<>>)
        => /\ ~sales'.result[1].raised
           /\ (sales'.result[1].exception # <<>>)
              => /\ sales'.result[1].response.intent = "error"
                 /\ sales'.result[1].response.requires_followup
                 /\ sales'.result[1].response.message = FallbackResponseText
                 /\ sales'.context.current_intent = sales.context.current_intent
                 /\ sales'.context.collected_info = sales.context.collected_info
                 /\ sales'.context.conversation_history = sales.context.conversation_history
      ]_vars

C14_Witness ==
    /\ sales.result # <<>>
    /\ sales.result[1].exception # <<>>
    /\ "booking_assistant" \in Range(sales.result[1].calls)
    /\ sales.context.conversation_history # <<>>
    /\ sales.context.current_intent = <<"booking">>

\* C15 (as claimed): a visitor who supplies a name, an email address, a phone number
\* and an appointment type, in messages all classified as booking, is eventually
\* answered with booking_ready = true and next_action "show_calendar".
C15_BookingCompletes ==
    <>(/\ sales.result # <<>>
       /\ sales.result[1].response.booking_ready
       /\ sales.result[1].response.next_action = <<"show_calendar">>)

----------------------------------------------------------------------------
(* Properties of authentication and encryption *)

IsAuth(call) == call.fn \in {"get_current_practice", "get_current_therapist"}
Verifies(token) == token.wellformed /\ token.key = "secret_key" /\ ~token.expired

\* C16: get_current_practice and get_current_therapist answer 401 "Could not validate
\* credentials" for every token that fails verification and 401 "Invalid authentication
\* token" for a token that verifies but carries no "sub" claim; the endpoint runs (status
\* 200) only for a verified token with a non-empty subject, which becomes the id.
C16_AuthenticationResponses ==
    IsAuth(util) =>
        /\ ~Verifies(util.arg) =>
              /\ util.result.status = 401
              /\ util.result.detail = << "Could not validate credentials" >>
        /\ (Verifies(util.arg) /\ util.arg.sub = <<>>) =>
              /\ util.result.status = 401
              /\ util.result.detail = << "Invalid authentication token" >>
        /\ util.result.status = 200 =>
              /\ Verifies(util.arg)
              /\ Truthy(util.arg.sub)
              /\ util.result.id = util.arg.sub

Returned(value) == [raised |-> <<>>, ret |-> value]

\* the round trips of dictionaries and of credentials
DictRoundTrips ==
    /\ (util.fn = "encrypt_dict" /\ JsonRepresentable(util.arg))
          => util.result = Returned(util.arg)
    /\ util.fn = "GHLCredentials.encrypt" => util.result = Returned(<< util.arg >>)

----------------------------------------------------------------------------
(* Properties of the public chat endpoint *)

\* the contacts_create call reached the CRM and was answered 200 with a "result" object
\* that reports no error
CreateSucceeded(calls) ==
    /\ calls # <<>>
    /\ calls[1].tool_name = "contacts_create"
    /\ calls[1].posts # <<>>
    /\ calls[1].outcome[1].kind = "response"
    /\ calls[1].outcome[1].status_code = 200
    /\ calls[1].outcome[1].body.json
    /\ IsDict(calls[1].outcome[1].body.value)
    /\ "result" \in DOMAIN calls[1].outcome[1].body.value.items
    /\ IsDict(calls[1].outcome[1].body.value.items["result"])
    /\ "error" \notin DOMAIN calls[1].outcome[1].body.value.items["result"].items

ToldSaved(body) == body.message \in {SavedAndScheduling, SavedContact}

\* C18: chat_message reports contact_created = true, and tells the visitor the information
\* was saved, only when visitor_info had an email, name or phone and a successful
\* contacts_create call created the contact; with no contact info, with the CRM
\* unconfigured, or when the call failed, contact_created is false and ghl_connected null.
C18_ContactCreatedOnlyWhenCreated ==
    pub.op = "chat_message" =>
        /\ (pub.response[1].contact_created \/ ToldSaved(pub.response[1]))
              => (pub.response[1].contact_data # EmptyDict /\ CreateSucceeded(pub.calls))
        /\ (pub.response[1].contact_data = EmptyDict \/ ghl_unconfigured
              \/ ~CreateSucceeded(pub.calls))
              => (~pub.response[1].contact_created /\ pub.response[1].ghl_connected = <<>>)

----------------------------------------------------------------------------
(* Properties of scheduling *)

Issued(call, tool_name) == tool_name \in Range(call.tools)

TherapyCalendars == { i \in DOMAIN ghl.calendars : ghl.calendars[i].name = TherapyCalendarName }

\* a call whose listing held a "Therapy Sessions" calendar got the id of such a calendar
\* and issued no calendars_create; calendars_create is issued only after a listing
\* that held none
EnsureFindsBeforeCreating ==
    \A c \in DOMAIN ghl.calls :
        /\ ghl.calls[c].listed = <<TRUE>> =>
               /\ ~Issued(ghl.calls[c], "calendars_create")
               /\ \E i \in TherapyCalendars : ghl.calls[c].calendar_id = << << ghl.calendars[i].id >> >>
        /\ Issued(ghl.calls[c], "calendars_create") => ghl.calls[c].listed = <<FALSE>>

\* at most one "Therapy Sessions" calendar has been created by the calls
AtMostOneTherapyCalendarCreated ==
    Cardinality({ i \in TherapyCalendars : ghl.calendars[i].created_by # 0 }) <= 1

\* the calendar id _ensure_therapy_calendar returned to a call is not None
CalendarIdNeverNull ==
    \A c \in DOMAIN ghl.calls : ghl.calls[c].calendar_id # <<>> => ghl.calls[c].calendar_id[1] # <<>>

\* C21: _ensure_therapy_calendar returns the id of an existing calendar named
\* "Therapy Sessions" without issuing calendars_create and issues calendars_create
\* only when the listing holds none; over every interleaving of
\* schedule_therapy_session calls of one therapist at most one "Therapy Sessions"
\* calendar is ever created, and the calendar id returned is never null
C21_OneTherapyCalendar ==
    /\ EnsureFindsBeforeCreating
    /\ AtMostOneTherapyCalendarCreated
    /\ CalendarIdNeverNull

----------------------------------------------------------------------------
(* Properties of the session store *)

\* the handlers that take `session: PatientSession = Depends(get_patient_session)`
UsesSession(inv) ==
    inv.op \in {"send_chat_message", "get_emergency_resources", "get_session_info",
                "get_conversation_history"}

\* the fields of a session that tell which session it is and when it was created
SessionIdentity(session) ==
    <<session.session_id, session.patient_id, session.therapist_id, session.started_at>>

\* the two dictionaries have the same keys, and each context names the patient, the
\* therapist and the session of the session stored under its key
SessionStoreConsistent ==
    /\ DOMAIN active_sessions = DOMAIN conversation_contexts
    /\ \A k \in DOMAIN active_sessions :
           /\ active_sessions[k].session_id = k
           /\ conversation_contexts[k].patient_id = active_sessions[k].patient_id
           /\ conversation_contexts[k].therapist_id = active_sessions[k].therapist_id
           /\ conversation_contexts[k].session_id = active_sessions[k].session_id

\* a step keeps every stored session; a request with a known session-id gets the
\* stored session and adds none; a session is added only for the unknown session-id
\* of the request that arrives, with message_count 0, consent granted and risk low
SessionStoreStep ==
    /\ \A k \in DOMAIN active_sessions :
           /\ k \in DOMAIN active_sessions'
           /\ SessionIdentity(active_sessions'[k]) = SessionIdentity(active_sessions[k])
    /\ (nreq' = nreq + 1 /\ UsesSession(last') /\ last'.session_id \in DOMAIN active_sessions) =>
           /\ get_patient_session(last'.session_id, now).sessions = active_sessions
           /\ get_patient_session(last'.session_id, now).contexts = conversation_contexts
           /\ DOMAIN active_sessions' = DOMAIN active_sessions
    /\ \A k \in DOMAIN active_sessions' \ DOMAIN active_sessions :
           /\ nreq' = nreq + 1 /\ UsesSession(last') /\ last'.session_id = k
           /\ get_patient_session(k, now).sessions[k].message_count = 0
           /\ get_patient_session(k, now).sessions[k].consent_status = "granted"
           /\ get_patient_session(k, now).sessions[k].risk_level = "low"
           /\ active_sessions'[k].started_at = now
           /\ active_sessions'[k].consent_status = "granted"
           /\ last'.op = "get_session_info" =>
                  /\ active_sessions'[k].message_count = 0
                  /\ active_sessions'[k].risk_level = "low"

\* C22: in every reachable state active_sessions and conversation_contexts have the
\* same key set and each context's patient_id, therapist_id and session_id equal those
\* of the session under the same key; a session once created is never removed or
\* replaced: get_patient_session with a known session-id returns the stored session
\* and creates a new one (message_count 0, consent GRANTED, risk LOW) only for an
\* unknown id
C22_SessionStore == []SessionStoreConsistent /\ [][SessionStoreStep]_vars

\* a request came with the session-id of a session that had already taken a message,
\* beside a session created for another id
C22_Witness ==
    /\ last.op = "get_session_info"
    /\ last.session_id \in DOMAIN active_sessions
    /\ active_sessions[last.session_id].message_count > 0
    /\ active_sessions[last.session_id].started_at < now - 1
    /\ Cardinality(DOMAIN active_sessions) >= 2

============================================================================
